---- MODULE Spec2Model ----
(***************************************************************************)
(* A state-machine model of the continuous-wave (Morse) decoder:           *)
(*   - AdaptiveWPMDetector   (src/src/continuous_wave/timing/adaptive.py)  *)
(*   - MorseDecoder          (src/src/continuous_wave/decoder/morse.py)    *)
(*   - NoiseReductionPipeline(src/src/continuous_wave/signal/noise.py)     *)
(*                                                                         *)
(* Time is fixed-point: one tick is 10 microseconds (Ms(60) = 6000 ticks). *)
(* The program's floats are modelled by integer ticks; products and        *)
(* comparisons that the program makes on floats are made exactly on        *)
(* integers wherever a common denominator exists, and rounded down to one  *)
(* tick (dot durations) or to 1/1000 WPM (speeds) where it does not.       *)
(* An optional value (Python's None) is a sequence of length 0 or 1.       *)
(***************************************************************************)
EXTENDS Integers, Sequences, FiniteSets, TLC

VARIABLES
    ta,           \* the AdaptiveWPMDetector instance (its fields)
    hist,         \* every event passed to analyze() since construction/reset
    out,          \* the list returned by the last analyze() call
    emitted,      \* concatenation of all analyze() results since construction/reset
    pre,          \* the analyzer's fields at entry of the last call
    replayed_at,  \* Len(hist) at the call that replayed the buffer, 0 if none
    n_dev,        \* number of off-nominal events sent so far (keyer of Spec)
    speed,        \* element duration currently keyed (keyer of SpecKeying)
    switches,     \* number of speed changes so far (keyer of SpecKeying)
    switch_stats, \* timing_stats read just before the last speed change
    dec,          \* the MorseDecoder instance (its fields)
    dec_op,       \* the last decoder method called: "none", "decode", "flush", "reset"
    dec_in,       \* the symbol list passed to the last decode() call
    dec_pre,      \* the accumulator (_current_pattern) at entry of the last call
    dec_out,      \* the list returned by the last decode()/flush() call
    dec_raised,   \* the last call raised ValueError instead of returning
    np,           \* the NoiseReductionPipeline instance (its components' fields)
    np_out,       \* the AudioSample returned by the last process() call, if any
    twin,         \* a freshly constructed pipeline fed the chunks fed to np since its reset()
    twin_out,     \* what the fresh pipeline returned for the last chunk
    compared,     \* np has been reset() and only fed chunks since
    n_chunks,     \* chunks fed since construction or the last reset()
    fd,           \* the FrequencyDetectorImpl instance (its fields)
    fd_op,        \* the last detector method called: "none", "detect", "reset"
    fd_in,        \* the audio passed to the last detect() call
    fd_pre,       \* the detector's fields at entry of the last call
    fd_out,       \* what the last detect() call returned: None or the SignalStats
    fd_raised,    \* the last detect() call raised instead of returning
    streak,       \* length of the run of detections that began with no hypothesis
    lock_frequency, \* the estimate held when the detector last locked, while locked
    n_detects,    \* detect() calls so far
    pl,           \* the CWDecoderPipeline instance: its stages' fields and _state
    run_pc,       \* where run() stands: "awaiting", "yielded", "ended", "raised"
    pending,      \* decoded characters of the current chunk that run() has yet to yield
    current_time, \* run()'s current_time for the chunk in progress
    clock,        \* time.time() - _start_time
    pl_op,        \* the last step: "none", "chunk", "resume", "end", "reset"
    pl_in,        \* the last chunk the audio source produced
    tone_called,  \* the last chunk step called tone_detector.detect
    last_yield,   \* the last (character, snapshot) pair yielded, if any
    yielded_ref,  \* the state object that snapshot is, as the number of resets before it
    n_yielded,    \* pairs yielded since construction or the last reset()
    pre_count,    \* _state.characters_decoded at entry of the last step
    pre_fd,       \* the frequency detector's fields at entry of the last step
    n_holds,      \* chunks so far that kept the previous chunk's level
    n_odd,        \* weak, off-bin or short chunks so far
    n_resets,     \* reset() calls so far
    n_pl_chunks,  \* chunks consumed so far
    ent,          \* an entity a stage has created, as it is now
    ent_made,     \* that entity as the stage created it
    ent_kind,     \* its class: "SignalStats", "ToneEvent", "MorseSymbol", "DecodedCharacter"
    ent_op,       \* the last step on it: "none", "construct", "touch"
    ent_now,      \* current_time of the chunk in which run() last touched it
    ent_raised,   \* that step of run() raised
    sq,           \* a SquelchGate instance: is_open and smoothed_level
    sq_pre,       \* its fields at entry of the last call
    sq_rms,       \* the RMS level of the chunk passed to the last process() call
    sq_op,        \* the last method called on it: "none", "process", "reset"
    sc_queue,     \* SoundcardSource._queue: the chunks it holds, oldest first
    sc_getter,    \* the future of a waiting _queue.get(): "none", "pending", "done"
    sc_running,   \* SoundcardSource._is_running
    cb_pc,        \* where audio_callback stands: "idle", "full", "put", "wake"
    cb_chunk,     \* the chunk the running callback holds (chunks are numbered as captured)
    rd_pc,        \* where read() stands: "idle", "empty", "register", "await", "get"
    captured,     \* chunks captured so far
    delivered,    \* the chunks read() has returned to the loop, in order
    dropped,      \* the chunks dropped so far
    drop_queue,   \* what the queue held when the last chunk was dropped, and right after
    cfg_args,     \* the field values the last CWConfig(...) was called with
    cfg,          \* the CWConfig object that call returned, if it returned one
    cfg_raised,   \* what the last configuration step raised: "none", "ValueError", "AttributeError"
    cfg_op,       \* the last configuration step: "none", "construct", "stages", "cli"
    stage_config, \* the configuration object the stages were last built with
    td,           \* the EnvelopeDetector instance (its fields)
    td_pre,       \* the detector's fields at entry of the last call
    td_in,        \* the AudioSample passed to the last detect() call
    td_out,       \* the list returned by the last detect() call
    td_op,        \* the last detector method called: "none", "detect", "reset"
    td_events,    \* every event returned since construction or the last reset()
    td_chunks,    \* chunks passed to detect() so far
    ed_s1,        \* the first string passed to the last _edit_distance call
    ed_s2,        \* the second string passed to it
    ed_distance,  \* what the call returned
    ed_swapped    \* what _edit_distance returns for the same strings exchanged

timingVars == <<ta, hist, out, emitted, pre, replayed_at, n_dev, speed, switches, switch_stats>>

decoderVars == <<dec, dec_op, dec_in, dec_pre, dec_out, dec_raised>>

noiseVars == <<np, np_out, twin, twin_out, compared, n_chunks>>

freqVars == <<fd, fd_op, fd_in, fd_pre, fd_out, fd_raised, streak, lock_frequency, n_detects>>

pipeVars ==
    <<pl, run_pc, pending, current_time, clock, pl_op, pl_in, tone_called, last_yield,
      yielded_ref, n_yielded, pre_count, pre_fd, n_holds, n_odd, n_resets, n_pl_chunks>>

entityVars == <<ent, ent_made, ent_kind, ent_op, ent_now, ent_raised>>

squelchVars == <<sq, sq_pre, sq_rms, sq_op>>

baseVars == <<timingVars, decoderVars, noiseVars, freqVars, pipeVars, entityVars>>

queueVars ==
    <<sc_queue, sc_getter, sc_running, cb_pc, cb_chunk, rd_pc, captured, delivered, dropped,
      drop_queue>>

configVars == <<cfg_args, cfg, cfg_raised, cfg_op, stage_config>>

toneVars == <<td, td_pre, td_in, td_out, td_op, td_events, td_chunks>>

editVars == <<ed_s1, ed_s2, ed_distance, ed_swapped>>

restVars == <<squelchVars, queueVars, configVars, toneVars, editVars>>

vars == <<baseVars, restVars>>

----------------------------------------------------------------------------
(* Units *)

\* x milliseconds in ticks of 10 us.
Ms(x) == x * 100

\* 1.2 seconds, the PARIS constant, in ticks.
Paris == Ms(1200)

\* WPM = 1.2 / dot_duration, in 1/1000 WPM, rounded down.
WpmOf(dot) == (Paris * 1000) \div dot

None == <<>>
Some(x) == <<x>>
IsNone(o) == o = <<>>
Val(o) == o[1]

Max2(a, b) == IF a >= b THEN a ELSE b
Min2(a, b) == IF a <= b THEN a ELSE b
Abs(a) == IF a < 0 THEN 0 - a ELSE a
Last(s) == s[Len(s)]

----------------------------------------------------------------------------
(* Configuration (CWConfig defaults) and the analyzer's constants *)

sample_rate == 8000
filter_bandwidth == 200
freq_range == <<200, 1200>>
min_wpm == 5
max_wpm == 55
required_lock_samples == 5
SampleCap == 20
EventCap == 100
chunk_size == 256
config_tone_threshold == 100
fd_required_lock_samples == 5
min_snr_db == 6
agc_target == 500
agc_attack_ms == 10
agc_release_ms == 100
initial_wpm == 20

\* An append to a deque with no maxlen.
DequeAppendUnbounded(s, x, cap) == Append(s, x)

\* collections.deque(maxlen=cap).append
DequeAppend(s, x, cap) == IF Len(s) >= cap THEN Append(Tail(s), x) ELSE Append(s, x)

----------------------------------------------------------------------------
(* Data model *)

ToneEvent(on, t) == [is_tone_on |-> on, timestamp |-> t]

MorseSymbol(el, d) == [element |-> el, duration |-> d, timestamp |-> 0]

IsTone(sym) == sym.element \in {"DOT", "DASH"}

----------------------------------------------------------------------------
(* AdaptiveWPMDetector *)

FreshAnalyzer ==
    [ last_event             |-> None,
      dot_durations          |-> <<>>,
      dash_durations         |-> <<>>,
      estimated_dot_duration |-> None,
      estimated_wpm          |-> None,
      lock_count             |-> 0,
      buffered_events        |-> <<>>,
      has_emitted_buffered   |-> FALSE ]

is_locked(s) ==
    /\ s.lock_count >= required_lock_samples
    /\ ~IsNone(s.estimated_dot_duration)

\* timing_stats: None unless locked.  confidence is in 1/1000.
timing_stats(s) ==
    IF ~is_locked(s) THEN None
    ELSE Some([ dot_duration |-> Val(s.estimated_dot_duration),
                wpm          |-> Val(s.estimated_wpm),
                confidence   |-> Min2(1000, (s.lock_count * 1000) \div (required_lock_samples * 2)),
                num_samples  |-> Len(s.dot_durations) + Len(s.dash_durations) ])

RECURSIVE InsertSorted(_, _)
InsertSorted(x, s) ==
    IF s = <<>> THEN <<x>>
    ELSE IF x <= Head(s) THEN <<x>> \o s
    ELSE <<Head(s)>> \o InsertSorted(x, Tail(s))

RECURSIVE sorted(_)
sorted(s) == IF s = <<>> THEN <<>> ELSE InsertSorted(Head(s), sorted(Tail(s)))

\* Python's s[len(s) // 2] on a sorted list (0-based index).
MedianOf(s) == sorted(s)[(Len(s) \div 2) + 1]

\* Bounds of the fixed outlier window, 25 ms and 600 ms.
MinValidDuration == Ms(25)
MaxValidDuration == Ms(600)

\* filter_outliers.  With 3 or more samples the bounds involve 1.5 * IQR and
\* 0.5 * median, so the comparison is made on doubled values, exactly.
filter_outliers(durations) ==
    IF Len(durations) < 3
    THEN LET Keep(d) == MinValidDuration <= d /\ d <= MaxValidDuration
         IN  SelectSeq(durations, Keep)
    ELSE LET n       == Len(durations)
             srt     == sorted(durations)
             median  == srt[(n \div 2) + 1]
             q1      == srt[(n \div 4) + 1]
             q3      == srt[((3 * n) \div 4) + 1]
             iqr     == q3 - q1
             lower2  == Max2(Max2(2 * MinValidDuration, 2 * q1 - 3 * iqr), median)
             upper2  == Min2(2 * MaxValidDuration, 2 * q3 + 3 * iqr)
             Keep(d) == lower2 <= 2 * d /\ 2 * d <= upper2
         IN  SelectSeq(durations, Keep)

\* A guard that one sample satisfies.
has_any_sample(s) == Len(s.dot_durations) + Len(s.dash_durations) >= 1

\* The guard of lines 325-335: enough samples to establish initial timing.
has_enough_samples(s) ==
    LET nd == Len(s.dot_durations)
        nh == Len(s.dash_durations)
    IN  \/ nd >= 2
        \/ nh >= 2
        \/ (nd >= 1 /\ nh >= 1 /\ nd + nh >= 2)

\* Lines 365-382: the raw dot estimate from the filtered samples (None if none).
dot_estimate_of(filtered_dots, filtered_dashes) ==
    IF filtered_dots # <<>>
    THEN IF filtered_dashes # <<>>
         THEN \* 0.7 * dot + 0.3 * (dash / 3)
              Some((7 * MedianOf(filtered_dots) + MedianOf(filtered_dashes)) \div 10)
         ELSE Some(MedianOf(filtered_dots))
    ELSE IF filtered_dashes # <<>>
         THEN Some(MedianOf(filtered_dashes) \div 3)
         ELSE None

\* A lower limit that every estimate passes.
at_least_any_wpm(dot) == TRUE

\* min_wpm <= 1.2 / dot, cross-multiplied: the first comparison of line 388.
at_least_min_wpm(dot) == min_wpm * dot <= Paris

\* A range test with the two limits exchanged.
wpm_range_swapped(dot) == max_wpm * dot <= Paris /\ Paris <= min_wpm * dot

\* min_wpm <= 1.2 / dot <= max_wpm, cross-multiplied.
wpm_in_range(dot) == at_least_min_wpm(dot) /\ Paris <= max_wpm * dot

\* A stability test that every update passes.
is_stable_always(new_wpm, old_wpm) == TRUE

\* abs(new_wpm - estimated_wpm) < 2.0
is_stable(new_wpm, old_wpm) == Abs(new_wpm - old_wpm) < 2000

\* A smoothing that ignores the new estimate (alpha = 0).
smooth_frozen(dot_estimate, old) == old

\* alpha * dot_estimate + (1 - alpha) * estimated, alpha = 0.2
smooth_dot(dot_estimate, old) == (dot_estimate + 4 * old) \div 5

update_timing_estimate(s) ==
    IF s.dot_durations = <<>> /\ s.dash_durations = <<>> THEN s
    ELSE IF IsNone(s.estimated_dot_duration) /\ ~has_enough_samples(s) THEN s
    ELSE
      LET est == dot_estimate_of(filter_outliers(s.dot_durations),
                                 filter_outliers(s.dash_durations))
      IN  IF IsNone(est) THEN s
          ELSE IF ~wpm_in_range(Val(est)) THEN s
          ELSE IF IsNone(s.estimated_dot_duration)
          THEN [s EXCEPT !.estimated_dot_duration = est,
                         !.estimated_wpm = Some(WpmOf(Val(est))),
                         !.lock_count = 1]
          ELSE LET new_dot == smooth_dot(Val(est), Val(s.estimated_dot_duration))
                   new_wpm == WpmOf(new_dot)
               IN  [s EXCEPT !.estimated_dot_duration = Some(new_dot),
                             !.estimated_wpm = Some(new_wpm),
                             !.lock_count =
                                 IF is_stable(new_wpm, Val(s.estimated_wpm))
                                 THEN Min2(s.lock_count + 1, required_lock_samples + 10)
                                 ELSE Max2(0, s.lock_count - 1)]

\* A bootstrap reference of 10 WPM.
default_dot_slow == Paris \div 10

\* default_dot = 1.2 / 20 WPM, the bootstrap reference of _classify_tone.
default_dot == Paris \div 20

\* The dot/dash threshold: twice the estimate, or twice the bootstrap dot.
tone_threshold(s) ==
    IF IsNone(s.estimated_dot_duration) THEN default_dot * 2
    ELSE Val(s.estimated_dot_duration) * 2

\* _classify_tone: records the sample, updates the estimate, returns the symbol.
classify_tone(s, duration) ==
    IF duration < tone_threshold(s)
    THEN [ state  |-> update_timing_estimate(
                        [s EXCEPT !.dot_durations = DequeAppend(@, duration, SampleCap)]),
           symbol |-> Some(MorseSymbol("DOT", duration)) ]
    ELSE [ state  |-> update_timing_estimate(
                        [s EXCEPT !.dash_durations = DequeAppend(@, duration, SampleCap)]),
           symbol |-> Some(MorseSymbol("DASH", duration)) ]

\* _classify_gap with the first boundary on the element side.
classify_gap_late(s, duration) ==
    IF IsNone(s.estimated_dot_duration) THEN None
    ELSE IF duration <= Val(s.estimated_dot_duration) * 2
         THEN Some(MorseSymbol("ELEMENT_GAP", duration))
    ELSE IF duration < Val(s.estimated_dot_duration) * 5
         THEN Some(MorseSymbol("CHAR_GAP", duration))
    ELSE Some(MorseSymbol("WORD_GAP", duration))

\* _classify_gap
classify_gap(s, duration) ==
    IF IsNone(s.estimated_dot_duration) THEN None
    ELSE IF duration < Val(s.estimated_dot_duration) * 2
         THEN Some(MorseSymbol("ELEMENT_GAP", duration))
    ELSE IF duration < Val(s.estimated_dot_duration) * 5
         THEN Some(MorseSymbol("CHAR_GAP", duration))
    ELSE Some(MorseSymbol("WORD_GAP", duration))

\* An artifact limit above the nominal dot.
ArtifactDurationWide == Ms(100)

\* Tones shorter than this are dropped by the replay as keying artifacts.
ArtifactDuration == Ms(30)

\* _reclassify_tone without its dash branch.
reclassify_tone_dots(s, duration) ==
    IF IsNone(s.estimated_dot_duration) THEN None
    ELSE IF duration < ArtifactDuration THEN None
    ELSE Some(MorseSymbol("DOT", duration))

\* _reclassify_tone
reclassify_tone(s, duration) ==
    IF IsNone(s.estimated_dot_duration) THEN None
    ELSE IF duration < ArtifactDuration THEN None
    ELSE IF duration < Val(s.estimated_dot_duration) * 2
         THEN Some(MorseSymbol("DOT", duration))
    ELSE Some(MorseSymbol("DASH", duration))

\* The loop of _replay_buffered_events from buffer position i on;
\* prev is prev_event, lvt is last_valid_tone.
RECURSIVE replay_from(_, _, _, _)
replay_from(s, i, prev, lvt) ==
    IF i > Len(s.buffered_events) THEN <<>>
    ELSE
      LET event    == s.buffered_events[i]
          duration == event.timestamp - prev.timestamp
      IN  IF duration <= 0 THEN replay_from(s, i + 1, event, lvt)
          ELSE IF prev.is_tone_on /\ ~event.is_tone_on
          THEN LET symbol == reclassify_tone(s, duration)
               IN  symbol \o replay_from(s, i + 1, event, ~IsNone(symbol))
          ELSE IF ~prev.is_tone_on /\ event.is_tone_on
          THEN (IF lvt THEN classify_gap(s, duration) ELSE <<>>)
               \o replay_from(s, i + 1, event, lvt)
          ELSE replay_from(s, i + 1, event, lvt)

replay_buffered_events(s) ==
    IF Len(s.buffered_events) < 2 THEN <<>>
    ELSE replay_from(s, 2, s.buffered_events[1], FALSE)

\* A validity test that lets a zero duration through.
negative_duration(duration) == duration < 0

\* Line 67: the duration of an interval is invalid.
invalid_duration(duration) == duration <= 0

\* An emission test that does not look at the lock.
may_emit_unlocked(s) == s.has_emitted_buffered

\* Lines 77 and 85: a live symbol is returned only in this case.
may_emit(s) == is_locked(s) /\ s.has_emitted_buffered

\* Lines 55-89 of analyze(): the path taken when no replay is due.
analyze_live(s, event) ==
    LET b == IF ~is_locked(s)
             THEN [s EXCEPT !.buffered_events = DequeAppend(@, event, EventCap)]
             ELSE s
    IN  IF IsNone(b.last_event)
        THEN [state |-> [b EXCEPT !.last_event = Some(event)], symbols |-> <<>>]
        ELSE
          LET last     == Val(b.last_event)
              duration == event.timestamp - last.timestamp
          IN  IF invalid_duration(duration) THEN [state |-> b, symbols |-> <<>>]
              ELSE IF last.is_tone_on /\ ~event.is_tone_on
              THEN LET c == classify_tone(b, duration)
                   IN  [ state   |-> [c.state EXCEPT !.last_event = Some(event)],
                         symbols |-> IF may_emit(c.state) THEN c.symbol ELSE <<>> ]
              ELSE IF ~last.is_tone_on /\ event.is_tone_on
              THEN [ state   |-> [b EXCEPT !.last_event = Some(event)],
                     symbols |-> IF may_emit(b) THEN classify_gap(b, duration) ELSE <<>> ]
              ELSE [state |-> [b EXCEPT !.last_event = Some(event)], symbols |-> <<>>]

\* A replay condition that does not look at _has_emitted_buffered.
replay_due_every_lock(s) ==
    is_locked(s) /\ Len(s.buffered_events) > 1

\* Line 46: the buffer is replayed by this call.
replay_due(s) ==
    is_locked(s) /\ ~s.has_emitted_buffered /\ Len(s.buffered_events) > 1

\* analyze(event): the new fields and the returned list.
analyze(s, event) ==
    IF replay_due(s)
    THEN [ state   |-> [s EXCEPT !.has_emitted_buffered = TRUE,
                                 !.buffered_events = DequeAppend(@, event, EventCap)],
           symbols |-> replay_buffered_events(s) ]
    ELSE analyze_live(s, event)

\* reset()
reset(s) ==
    [s EXCEPT !.last_event = None,
              !.dot_durations = <<>>,
              !.dash_durations = <<>>,
              !.estimated_dot_duration = None,
              !.estimated_wpm = None,
              !.lock_count = 0,
              !.buffered_events = <<>>,
              !.has_emitted_buffered = FALSE]

----------------------------------------------------------------------------
(* MorseDecoder *)

\* The MORSE_CODE dictionary, in its insertion order (the order in which
\* _fuzzy_match iterates): <<pattern, character>>.
MORSE_CODE ==
    << <<".-", "A">>, <<"-...", "B">>, <<"-.-.", "C">>, <<"-..", "D">>,
       <<".", "E">>, <<"..-.", "F">>, <<"--.", "G">>, <<"....", "H">>,
       <<"..", "I">>, <<".---", "J">>, <<"-.-", "K">>, <<".-..", "L">>,
       <<"--", "M">>, <<"-.", "N">>, <<"---", "O">>, <<".--.", "P">>,
       <<"--.-", "Q">>, <<".-.", "R">>, <<"...", "S">>, <<"-", "T">>,
       <<"..-", "U">>, <<"...-", "V">>, <<".--", "W">>, <<"-..-", "X">>,
       <<"-.--", "Y">>, <<"--..", "Z">>, <<"-----", "0">>, <<".----", "1">>,
       <<"..---", "2">>, <<"...--", "3">>, <<"....-", "4">>,
       <<".....", "5">>, <<"-....", "6">>, <<"--...", "7">>,
       <<"---..", "8">>, <<"----.", "9">>, <<".-.-.-", ".">>,
       <<"--..--", ",">>, <<"..--..", "?">>, <<".----.", "'">>,
       <<"-.-.--", "!">>, <<"-..-.", "/">>, <<"-.--.", "(">>,
       <<"-.--.-", ")">>, <<".-...", "&">>, <<"---...", ":">>,
       <<"-.-.-.", ";">>, <<"-...-", "=">>, <<"-....-", "-">>,
       <<"..--.-", "_">>, <<".-..-.", "\"">>, <<"...-..-", "$">>,
       <<".--.-.", "@">>, <<".-.-", "<AA>">>, <<"-...-.-", "<BT>">>,
       <<".-.-.", "<AR>">>, <<"-.-.-", "<KA>">>, <<"...-.-", "<SK>">>,
       <<"........", "<HH>">> >>

\* Confidence is kept in thirtieths, the common denominator of 1.0, 0.3 and d/3.
Thirtieths(tenths) == tenths * 3

DecodedCharacter(char, confidence, timestamp, morse_pattern) ==
    [ char          |-> char,
      confidence    |-> confidence,
      timestamp     |-> timestamp,
      morse_pattern |-> morse_pattern ]

\* DecodedCharacter.__post_init__ raises ValueError unless this holds.
valid_character(c) ==
    /\ 0 <= c.confidence /\ c.confidence <= Thirtieths(10)
    /\ c.timestamp >= 0
    /\ (Len(c.char) = 1 \/ (c.char # "" /\ Head(c.char) = "<"))

\* The construction of a DecodedCharacter: the object, or ValueError.
construct(c) ==
    IF valid_character(c) THEN [result |-> Some(c), raised |-> FALSE]
    ELSE [result |-> None, raised |-> TRUE]

FreshDecoder == [current_pattern |-> <<>>, decoded_chars |-> <<>>]

\* A conversion that exchanges the two signs.
RECURSIVE pattern_str_swapped(_)
pattern_str_swapped(pattern) ==
    IF pattern = <<>> THEN ""
    ELSE (IF Head(pattern) = "DOT" THEN "-"
          ELSE IF Head(pattern) = "DASH" THEN "." ELSE "")
         \o pattern_str_swapped(Tail(pattern))

\* Lines 173-178: the element list as a string of '.' and '-'.
RECURSIVE pattern_str(_)
pattern_str(pattern) ==
    IF pattern = <<>> THEN ""
    ELSE (IF Head(pattern) = "DOT" THEN "."
          ELSE IF Head(pattern) = "DASH" THEN "-" ELSE "")
         \o pattern_str(Tail(pattern))

\* pattern_str in MORSE_CODE, and MORSE_CODE[pattern_str]
in_table(p) == \E k \in 1..Len(MORSE_CODE) : MORSE_CODE[k][1] = p
table_entry(p) == MORSE_CODE[CHOOSE k \in 1..Len(MORSE_CODE) : MORSE_CODE[k][1] = p][2]

Min3(a, b, c) == Min2(a, Min2(b, c))

\* The character at 1-based position i of a string.
CharAt(str, i) == SubSeq(str, i, i)

\* The inner loop with a substitution charged even for equal characters.
RECURSIVE edit_row_costly(_, _, _, _, _)
edit_row_costly(previous_row, c1, s2, j, current_row) ==
    IF j > Len(s2) THEN current_row
    ELSE LET insertions    == previous_row[j + 1] + 1
             deletions     == current_row[j] + 1
             substitutions == previous_row[j] + 1
         IN  edit_row_costly(previous_row, c1, s2, j + 1,
                             Append(current_row, Min3(insertions, deletions, substitutions)))

\* The inner loop of _edit_distance: current_row for character c1, from
\* position j of s2 on.
RECURSIVE edit_row(_, _, _, _, _)
edit_row(previous_row, c1, s2, j, current_row) ==
    IF j > Len(s2) THEN current_row
    ELSE LET insertions    == previous_row[j + 1] + 1
             deletions     == current_row[j] + 1
             substitutions == previous_row[j] + (IF c1 # CharAt(s2, j) THEN 1 ELSE 0)
         IN  edit_row(previous_row, c1, s2, j + 1,
                      Append(current_row, Min3(insertions, deletions, substitutions)))

\* The outer loop of _edit_distance, from position i of s1 on.  Every row has
\* len(s2) + 1 entries; looking at the row's length computes the row before
\* the next one is begun, as the loop does.
RECURSIVE edit_rows(_, _, _, _)
edit_rows(s1, s2, i, previous_row) ==
    IF i > Len(s1) \/ Len(previous_row) # Len(s2) + 1 THEN previous_row
    ELSE edit_rows(s1, s2, i + 1, edit_row(previous_row, CharAt(s1, i), s2, 1, <<i>>))

\* _edit_distance
RECURSIVE edit_distance(_, _)
edit_distance(s1, s2) ==
    IF Len(s1) < Len(s2) THEN edit_distance(s2, s1)
    ELSE IF Len(s2) = 0 THEN Len(s1)
    ELSE Last(edit_rows(s1, s2, 1, [k \in 1..(Len(s2) + 1) |-> k - 1]))

\* The loop of _fuzzy_match over the distances to the table entries:
\* min_distance starts at infinity and an entry replaces the best match only
\* when strictly closer, so the loop ends with the first entry, in table
\* order, at the least distance.
first_minimum(distance) ==
    CHOOSE k \in 1..Len(MORSE_CODE) :
        /\ \A j \in 1..Len(MORSE_CODE) : distance[k] <= distance[j]
        /\ \A j \in 1..(k - 1) : distance[j] > distance[k]

\* An acceptance test that lets only an exact match through.
accept_match_strict(min_distance, best_match) ==
    IF min_distance < 1
    THEN Some([ char       |-> best_match,
                confidence |-> Max2(Thirtieths(3), Thirtieths(10) - 10 * min_distance) ])
    ELSE None

\* Lines 232-237: None, or the character and max(0.3, 1 - distance / 3).
accept_match(min_distance, best_match) ==
    IF min_distance <= 1
    THEN Some([ char       |-> best_match,
                confidence |-> Max2(Thirtieths(3), Thirtieths(10) - 10 * min_distance) ])
    ELSE None

\* The outcome of the loop for the distances and the index it ends with.
scan_result(distance, best) == accept_match(distance[best], MORSE_CODE[best][2])

fuzzy_scan(distance) == scan_result(distance, first_minimum(distance))

\* _fuzzy_match
fuzzy_match(pattern) ==
    IF pattern = "" THEN None
    ELSE fuzzy_scan([k \in 1..Len(MORSE_CODE) |-> edit_distance(pattern, MORSE_CODE[k][1])])

\* The marker of line 203: the three characters U+00EF U+00BF U+00BD.
UnknownChar == "ï¿½"

\* Lines 190-207: the character built from the result of _fuzzy_match.
fuzzy_character(str, match) ==
    IF ~IsNone(match)
    THEN construct(DecodedCharacter(Val(match).char, Val(match).confidence, 0, str))
    ELSE construct(DecodedCharacter(UnknownChar, 0, 0, str))

\* Lines 180-207 for the pattern string.
decode_str(str) ==
    IF in_table(str)
    THEN construct(DecodedCharacter(table_entry(str), Thirtieths(10), 0, str))
    ELSE fuzzy_character(str, fuzzy_match(str))

\* _decode_pattern: result is None or the character; raised when the
\* construction of the character raises.
decode_pattern(pattern) ==
    IF pattern = <<>> THEN [result |-> None, raised |-> FALSE]
    ELSE decode_str(pattern_str(pattern))

\* Lines 108-110: the character r of the open pattern is appended and the
\* accumulator cleared; an exception leaves the accumulator as it is.
finalized(d, characters, r) ==
    IF r.raised
    THEN [state |-> d, characters |-> characters, raised |-> TRUE]
    ELSE [ state      |-> [d EXCEPT !.current_pattern = <<>>],
           characters |-> characters \o r.result,
           raised     |-> FALSE ]

\* Lines 106-110, 115-119 and 148-152: decode the open pattern, if any.
finalize(d, characters) ==
    IF d.current_pattern = <<>>
    THEN [state |-> d, characters |-> characters, raised |-> FALSE]
    ELSE finalized(d, characters, decode_pattern(d.current_pattern))

RECURSIVE decode_from(_, _, _, _)

\* Line 104 on: a CHAR_GAP at position i, f being the finalization.
char_gap(f, symbols, i) ==
    IF f.raised THEN f ELSE decode_from(f.state, symbols, i + 1, f.characters)

\* Lines 121-129: the space of a WORD_GAP at position i is appended.
word_gap_space(f, space, symbols, i) ==
    IF space.raised
    THEN [state |-> f.state, characters |-> f.characters, raised |-> TRUE]
    ELSE decode_from(f.state, symbols, i + 1, f.characters \o space.result)

\* Line 112 on: a WORD_GAP at position i, f being the finalization.
word_gap(f, symbols, i) ==
    IF f.raised THEN f
    ELSE word_gap_space(f, construct(DecodedCharacter(" ", Thirtieths(10),
                                                      symbols[i].timestamp, "")),
                        symbols, i)

\* The loop of decode() from position i of symbols on.
decode_from(d, symbols, i, characters) ==
    IF i > Len(symbols)
    THEN [state |-> d, characters |-> characters, raised |-> FALSE]
    ELSE IF symbols[i].element \in {"DOT", "DASH"}
    THEN decode_from([d EXCEPT !.current_pattern = Append(@, symbols[i].element)],
                     symbols, i + 1, characters)
    ELSE IF symbols[i].element = "CHAR_GAP"
    THEN char_gap(finalize(d, characters), symbols, i)
    ELSE IF symbols[i].element = "WORD_GAP"
    THEN word_gap(finalize(d, characters), symbols, i)
    ELSE decode_from(d, symbols, i + 1, characters)

\* What a call hands back: nothing is returned when it raises.
returned(r) ==
    IF r.raised THEN [state |-> r.state, characters |-> <<>>, raised |-> TRUE] ELSE r

\* decode(symbols): the new fields, the returned list, whether it raised.
decode(d, symbols) == returned(decode_from(d, symbols, 1, <<>>))

\* flush()
flush(d) == returned(finalize(d, <<>>))

\* MorseDecoder.reset()
decoder_reset(d) == [d EXCEPT !.current_pattern = <<>>, !.decoded_chars = <<>>]

----------------------------------------------------------------------------
(* NoiseReductionPipeline *)

(***************************************************************************)
(* The pipeline computes on floating-point samples.  A float (or flag)     *)
(* that a component keeps between chunks is represented by what            *)
(* determines it: the constant it was last set to and the audio fed to the *)
(* component since.  An audio buffer is represented by the source chunk    *)
(* and the component states it went through.  Two such values are equal    *)
(* exactly when the program computed them from equal inputs in the same    *)
(* way.  Frequencies are in whole Hz.                                      *)
(***************************************************************************)
Initially(v) == [initial |-> v, fed |-> <<>>]
After(x, audio) == [x EXCEPT !.fed = Append(@, audio)]

AudioSample(chunk) == [chunk |-> chunk, through |-> <<>>]
Through(audio, stage) == [audio EXCEPT !.through = Append(@, stage)]

\* AutomaticGainControl.__init__ (state): envelope 0.0, gain 1.0
FreshAGC == [envelope |-> Initially(0), gain |-> Initially(1)]

\* AutomaticGainControl.process
agc_process(a, audio) ==
    [ state |-> [a EXCEPT !.envelope = After(@, audio), !.gain = After(@, audio)],
      audio |-> Through(audio, a) ]

\* AutomaticGainControl.reset
agc_reset(a) == [a EXCEPT !.envelope = Initially(0), !.gain = Initially(1)]

\* scipy.signal.butter: the coefficients are determined by the band edges.
butter(low_freq, high_freq) == [low |-> low_freq, high |-> high_freq]

\* scipy.signal.sosfilt_zi: the initial filter memory of these coefficients.
sosfilt_zi(sos) == Initially(sos)

\* _design_filter, for the centre frequency just assigned: the band edges,
\* the coefficients and a filter memory initialised for them.
design_filter(center_frequency) ==
    LET nyquist == sample_rate \div 2
        low     == Max2(1, Min2(center_frequency - filter_bandwidth \div 2, nyquist - 1))
        high    == Max2(low + 1,
                        Min2(center_frequency + filter_bandwidth \div 2, nyquist - 1))
    IN  [ center_frequency |-> center_frequency,
          sos              |-> butter(low, high),
          zi               |-> sosfilt_zi(butter(low, high)) ]

\* AdaptiveBandpassFilter.__init__ with center_frequency=None
FreshBandpass == design_filter((freq_range[1] + freq_range[2]) \div 2)

\* AdaptiveBandpassFilter.filter
filter(b, audio) ==
    [ state |-> [b EXCEPT !.zi = After(@, audio)],
      audio |-> Through(audio, [sos |-> b.sos, zi |-> b.zi]) ]

\* AdaptiveBandpassFilter.retune
retune(b, center_frequency) == design_filter(center_frequency)

\* AdaptiveBandpassFilter.reset: only the filter memory is re-initialised.
bandpass_reset(b) == [b EXCEPT !.zi = sosfilt_zi(b.sos)]

\* SquelchGate.__init__ (state): closed, level 0.0
FreshSquelch == [is_open |-> Initially(FALSE), smoothed_level |-> Initially(0)]

\* SquelchGate.process
squelch_process(q, audio) ==
    [ state |-> [q EXCEPT !.is_open = After(@, audio), !.smoothed_level = After(@, audio)],
      audio |-> Through(audio, q) ]

\* SquelchGate.reset
squelch_reset(q) == [q EXCEPT !.is_open = Initially(FALSE), !.smoothed_level = Initially(0)]

\* NoiseReductionPipeline.__init__ with center_frequency=None
FreshPipeline == [agc |-> FreshAGC, bandpass |-> FreshBandpass, squelch |-> FreshSquelch]

\* NoiseReductionPipeline.process: AGC, then bandpass, then squelch.
process(p, audio) ==
    LET a == agc_process(p.agc, audio)
        b == filter(p.bandpass, a.audio)
        q == squelch_process(p.squelch, b.audio)
    IN  [ state |-> [agc |-> a.state, bandpass |-> b.state, squelch |-> q.state],
          audio |-> q.audio ]

\* NoiseReductionPipeline.retune
pipeline_retune(p, center_frequency) ==
    [p EXCEPT !.bandpass = retune(@, center_frequency)]

\* NoiseReductionPipeline.reset
pipeline_reset(p) ==
    [ agc      |-> agc_reset(p.agc),
      bandpass |-> bandpass_reset(p.bandpass),
      squelch  |-> squelch_reset(p.squelch) ]

----------------------------------------------------------------------------
(* SquelchGate, on the levels it measures *)

\* Levels are kept in thousandths of full scale.
squelch_threshold == 50
squelch_hysteresis == 20

\* SquelchGate.__init__ (state): closed, level 0.0
FreshGate == [is_open |-> FALSE, smoothed_level |-> 0]

\* Line 235, with smooth_coef = 0.1
smoothed_level_after(q, rms) == q.smoothed_level + (rms - q.smoothed_level) \div 10

\* A gate that also opens with the level on the upper bound.
gate_after_inclusive(is_open, level) ==
    IF level >= squelch_threshold + squelch_hysteresis THEN TRUE
    ELSE IF level < squelch_threshold - squelch_hysteresis THEN FALSE
    ELSE is_open

\* Lines 238-241
gate_after(is_open, level) ==
    IF level > squelch_threshold + squelch_hysteresis THEN TRUE
    ELSE IF level < squelch_threshold - squelch_hysteresis THEN FALSE
    ELSE is_open

\* SquelchGate.process, rms being the RMS level of the chunk (line 232): the
\* state it leaves, and whether the chunk is let through.
gate_process(q, rms) ==
    [ state  |-> [ is_open        |-> gate_after(q.is_open, smoothed_level_after(q, rms)),
                   smoothed_level |-> smoothed_level_after(q, rms) ],
      passed |-> gate_after(q.is_open, smoothed_level_after(q, rms)) ]

\* SquelchGate.reset
gate_reset(q) == FreshGate

----------------------------------------------------------------------------
(* CWConfig: levels in thousandths of full scale, the rest in whole units *)

\* 1.0 as a level
FullScale == 1000

\* CWConfig(), every field at its default
DefaultConfig ==
    [sample_rate |-> sample_rate,
     chunk_size |-> chunk_size,
     min_freq |-> freq_range[1],
     max_freq |-> freq_range[2],
     min_snr_db |-> min_snr_db,
     filter_bandwidth |-> filter_bandwidth,
     agc_target |-> agc_target,
     agc_attack_ms |-> agc_attack_ms,
     agc_release_ms |-> agc_release_ms,
     squelch_threshold |-> squelch_threshold,
     squelch_hysteresis |-> squelch_hysteresis,
     tone_threshold |-> config_tone_threshold,
     initial_wpm |-> initial_wpm,
     min_wpm |-> min_wpm,
     max_wpm |-> max_wpm]

\* '0.0 <= x <= 1.0' with both ends excluded.
in_unit_range_open(x) == 0 < x /\ x < FullScale

\* 0.0 <= x <= 1.0
in_unit_range(x) == 0 <= x /\ x <= FullScale

\* CWConfig.__post_init__: "ValueError" at the first test that fails,
\* "none" when it returns.
post_init(c) ==
    IF c.sample_rate <= 0 THEN "ValueError"
    ELSE IF c.chunk_size <= 0 THEN "ValueError"
    ELSE IF c.min_freq < 0 THEN "ValueError"
    ELSE IF c.max_freq <= c.min_freq THEN "ValueError"
    ELSE IF c.min_snr_db < 0 THEN "ValueError"
    ELSE IF c.filter_bandwidth <= 0 THEN "ValueError"
    ELSE IF ~in_unit_range(c.agc_target) THEN "ValueError"
    ELSE IF c.agc_attack_ms <= 0 THEN "ValueError"
    ELSE IF c.agc_release_ms <= 0 THEN "ValueError"
    ELSE IF ~in_unit_range(c.squelch_threshold) THEN "ValueError"
    ELSE IF ~in_unit_range(c.squelch_hysteresis) THEN "ValueError"
    ELSE IF ~in_unit_range(c.tone_threshold) THEN "ValueError"
    ELSE IF c.initial_wpm <= 0 THEN "ValueError"
    ELSE IF c.min_wpm <= 0 THEN "ValueError"
    ELSE IF c.max_wpm <= c.min_wpm THEN "ValueError"
    ELSE "none"

\* CWConfig(**args): the generated __init__ stores the fields and calls
\* __post_init__; the object is returned unless that raised.
new_config(args) ==
    [raised |-> post_init(args),
     object |-> IF post_init(args) = "none" THEN Some(args) ELSE None]

\* cli.py, 'config.audio.sample_rate = args.sample_rate' on a CWConfig,
\* which has no attribute 'audio': the read of config.audio raises, and the
\* command ends with the exception, its configuration object with it.
cli_configure(config) == [raised |-> "AttributeError", config |-> None]

----------------------------------------------------------------------------
(* SoundcardSource: the queue between audio_callback and read() *)

\* asyncio.Queue(maxsize=10)
QueueMaxsize == 10

\* Queue.full() with one element more allowed.
full_late(queue) == Len(queue) > QueueMaxsize

\* Queue.full()
full(queue) == Len(queue) >= QueueMaxsize

\* Queue.empty()
empty(queue) == queue = <<>>

\* Queue._put: deque.append
put(queue, item) == Append(queue, item)

\* Queue._get: deque.popleft
get_item(queue) == [item |-> Head(queue), queue |-> Tail(queue)]

\* Queue._wakeup_next(self._getters): a waiting getter's future is resolved.
wakeup_next(getter) == IF getter = "pending" THEN "done" ELSE getter

----------------------------------------------------------------------------
(* FrequencyDetectorImpl *)

\* Frequencies are kept in hundredths of a hertz.
Hz(x) == x * 100

\* np.fft.rfftfreq: the frequency of bin k of a chunk_size-point transform.
bin_frequency(k) == (k * sample_rate * 100) \div chunk_size

\* Lines 84-88: the bins inside the search range.
search_bins ==
    {k \in 0..(chunk_size \div 2) :
        Hz(freq_range[1]) <= bin_frequency(k) /\ bin_frequency(k) <= Hz(freq_range[2])}

\* What the detector measures of a chunk: its length, the bin of the
\* spectral peak inside the search range, and whether the signal-to-noise
\* ratio it computes (FFT or Goertzel) reaches min_snr_db.
Audio(num_samples, peak, strong) ==
    [num_samples |-> num_samples, peak |-> peak, strong |-> strong]

SignalStats(frequency) == [frequency |-> frequency, timestamp |-> 0]

FreshFrequencyDetector == [current_frequency |-> None, lock_count |-> 0]

\* A lock test that needs one sample more.
fd_is_locked_late(d) == d.lock_count > fd_required_lock_samples

\* FrequencyDetectorImpl.is_locked
fd_is_locked(d) == d.lock_count >= fd_required_lock_samples

\* What a detect() call leaves and hands back.
Detected(d, result) == [state |-> d, result |-> result, raised |-> FALSE]

\* Lines 120-140: the hypothesis is seeded, confirmed and smoothed
\* (alpha = 0.3), or restarted, and the estimate is reported.
track(d, peak_freq) ==
    IF IsNone(d.current_frequency)
    THEN [current_frequency |-> Some(peak_freq), lock_count |-> 1]
    ELSE IF Abs(peak_freq - Val(d.current_frequency)) < Hz(10)
    THEN [ current_frequency |->
               Some((3 * peak_freq + 7 * Val(d.current_frequency)) \div 10),
           lock_count |-> d.lock_count + 1 ]
    ELSE [current_frequency |-> Some(peak_freq), lock_count |-> 1]

reported(d) == Detected(d, Some(SignalStats(Val(d.current_frequency))))

\* _fft_detect; a chunk shorter than the window cannot be multiplied by it
\* (line 76) and the call raises.
fft_detect(d, audio) ==
    IF audio.num_samples < chunk_size
    THEN [state |-> d, result |-> None, raised |-> TRUE]
    ELSE IF search_bins = {} THEN Detected(d, None)
    ELSE IF ~audio.strong
    THEN Detected([current_frequency |-> None, lock_count |-> 0], None)
    ELSE reported(track(d, bin_frequency(audio.peak)))

\* A tracker that follows the chunk's spectral peak.
goertzel_retarget(d, audio, target_freq) ==
    IF ~audio.strong
    THEN Detected([ current_frequency |->
                        IF Max2(0, d.lock_count - 1) = 0 THEN None
                        ELSE d.current_frequency,
                    lock_count |-> Max2(0, d.lock_count - 1) ], None)
    ELSE reported([ current_frequency |-> Some(bin_frequency(audio.peak)),
                    lock_count |-> Min2(d.lock_count + 1, fd_required_lock_samples + 5) ])

\* A tracker whose counter has no ceiling.
goertzel_uncapped(d, audio, target_freq) ==
    IF ~audio.strong
    THEN Detected([ current_frequency |->
                        IF Max2(0, d.lock_count - 1) = 0 THEN None
                        ELSE d.current_frequency,
                    lock_count |-> Max2(0, d.lock_count - 1) ], None)
    ELSE Detected([d EXCEPT !.lock_count = d.lock_count + 1],
                  Some(SignalStats(target_freq)))

\* _goertzel_track
goertzel_track(d, audio, target_freq) ==
    IF ~audio.strong
    THEN Detected([ current_frequency |->
                        IF Max2(0, d.lock_count - 1) = 0 THEN None
                        ELSE d.current_frequency,
                    lock_count |-> Max2(0, d.lock_count - 1) ], None)
    ELSE Detected([d EXCEPT !.lock_count =
                        Min2(d.lock_count + 1, fd_required_lock_samples + 5)],
                  Some(SignalStats(target_freq)))

\* FrequencyDetectorImpl.detect
fd_detect(d, audio) ==
    IF audio.num_samples < chunk_size \div 2 THEN Detected(d, None)
    ELSE IF IsNone(d.current_frequency) \/ ~fd_is_locked(d)
    THEN fft_detect(d, audio)
    ELSE goertzel_track(d, audio, Val(d.current_frequency))

\* FrequencyDetectorImpl.reset
fd_reset(d) == [d EXCEPT !.current_frequency = None, !.lock_count = 0]

----------------------------------------------------------------------------
(* EnvelopeDetector *)

\* Levels are kept in thousandths of full scale.
FreshToneDetector ==
    [is_tone_on |-> FALSE, signal_floor |-> 0, signal_ceiling |-> 1000]

\* Lines 77-81: the floor drops to the level at once and rises slowly (0.01).
signal_floor_after(t, chunk_level) ==
    IF chunk_level < t.signal_floor \/ t.signal_floor = 0 THEN chunk_level
    ELSE t.signal_floor + (chunk_level - t.signal_floor) \div 100

\* Lines 83-87: the ceiling rises to the level at once and falls slowly (0.05).
signal_ceiling_after(t, chunk_level) ==
    IF chunk_level > t.signal_ceiling THEN chunk_level
    ELSE t.signal_ceiling + (5 * (chunk_level - t.signal_ceiling)) \div 100

\* Lines 90-97: midpoint and tenth of the range, or the fixed threshold.
adaptive_threshold(floor, ceiling) ==
    IF ceiling - floor > 50 THEN floor + (ceiling - floor) \div 2
    ELSE config_tone_threshold

adaptive_hysteresis(floor, ceiling) ==
    IF ceiling - floor > 50 THEN (ceiling - floor) \div 10
    ELSE (config_tone_threshold * 3) \div 10

\* A detector that reports the tone with every chunk on which it is on.
tone_flip_per_chunk(t, audio, floor, ceiling) ==
    IF \/ /\ ~t.is_tone_on
          /\ audio.level > adaptive_threshold(floor, ceiling) + adaptive_hysteresis(floor, ceiling)
       \/ /\ t.is_tone_on
          /\ ~(audio.level < adaptive_threshold(floor, ceiling) - adaptive_hysteresis(floor, ceiling))
    THEN [ state  |-> [is_tone_on |-> TRUE, signal_floor |-> floor, signal_ceiling |-> ceiling],
           events |-> <<ToneEvent(TRUE, audio.timestamp)>> ]
    ELSE IF t.is_tone_on
    THEN [ state  |-> [is_tone_on |-> FALSE, signal_floor |-> floor, signal_ceiling |-> ceiling],
           events |-> <<ToneEvent(FALSE, audio.timestamp)>> ]
    ELSE [ state  |-> [t EXCEPT !.signal_floor = floor, !.signal_ceiling = ceiling],
           events |-> <<>> ]

\* Lines 99-125: the state flips on crossing threshold +/- hysteresis and
\* each flip is one event stamped with the chunk's timestamp.
tone_flip(t, audio, floor, ceiling) ==
    IF /\ ~t.is_tone_on
       /\ audio.level > adaptive_threshold(floor, ceiling) + adaptive_hysteresis(floor, ceiling)
    THEN [ state  |-> [is_tone_on |-> TRUE, signal_floor |-> floor, signal_ceiling |-> ceiling],
           events |-> <<ToneEvent(TRUE, audio.timestamp)>> ]
    ELSE IF /\ t.is_tone_on
            /\ audio.level < adaptive_threshold(floor, ceiling) - adaptive_hysteresis(floor, ceiling)
    THEN [ state  |-> [is_tone_on |-> FALSE, signal_floor |-> floor, signal_ceiling |-> ceiling],
           events |-> <<ToneEvent(FALSE, audio.timestamp)>> ]
    ELSE [ state  |-> [t EXCEPT !.signal_floor = floor, !.signal_ceiling = ceiling],
           events |-> <<>> ]

\* EnvelopeDetector.detect: the chunk is measured by its RMS level.
tone_detect(t, audio) ==
    IF audio.num_samples = 0 THEN [state |-> t, events |-> <<>>]
    ELSE tone_flip(t, audio, signal_floor_after(t, audio.level),
                   signal_ceiling_after(t, audio.level))

\* EnvelopeDetector.reset
tone_reset(t) ==
    [t EXCEPT !.is_tone_on = FALSE, !.signal_floor = 0, !.signal_ceiling = 1000]

----------------------------------------------------------------------------
(* CWDecoderPipeline *)

\* The stages are taken behind the calls run() makes on them (process,
\* detect, is_locked, retune, analyze, timing_stats, decode), and what they
\* return as records whose timestamp run() sets to the chunk's time.

\* A chunk of the audio source, by what the stages measure of it once it is
\* conditioned: its length, the bin of its spectral peak, whether its
\* signal-to-noise ratio reaches min_snr_db, and its RMS level.
Chunk(num_samples, peak, strong, level) ==
    [num_samples |-> num_samples, peak |-> peak, strong |-> strong, level |-> level]

CWDecoderState ==
    [ frequency_stats     |-> None,
      timing_stats        |-> None,
      is_frequency_locked |-> FALSE,
      is_timing_locked    |-> FALSE,
      characters_decoded  |-> 0 ]

FreshDecoderPipeline ==
    [ noise_pipeline     |-> FreshPipeline,
      frequency_detector |-> FreshFrequencyDetector,
      tone_detector      |-> FreshToneDetector,
      timing_analyzer    |-> FreshAnalyzer,
      decoder            |-> FreshDecoder,
      state              |-> CWDecoderState,
      \* not a field of the class: run() called noise_pipeline.retune for the
      \* chunk it took last
      retuned            |-> FALSE ]

\* How far the body of run() got with a chunk: the pipeline it leaves, the
\* characters it has to yield, whether it raised, and whether it called the
\* tone detector.
Ran(p, chars, raised, called) ==
    [pipeline |-> p, chars |-> chars, raised |-> raised, tone_called |-> called]

\* Lines 71-77: the stats are stamped and stored, the lock flag is read from
\* the detector, and the bandpass filter is retuned when it is locked.
stats_recorded(p, stats, locked) ==
    [p EXCEPT !.state.frequency_stats = Some(stats),
              !.state.is_frequency_locked = locked,
              !.noise_pipeline = IF locked THEN pipeline_retune(@, stats.frequency \div 100)
                                 ELSE @,
              !.retuned = locked]

\* Lines 69-77, r being what frequency_detector.detect returned.
frequency_step(p, r, now) ==
    IF IsNone(r.result) THEN [p EXCEPT !.frequency_detector = r.state]
    ELSE stats_recorded([p EXCEPT !.frequency_detector = r.state],
                        [Val(r.result) EXCEPT !.timestamp = now],
                        fd_is_locked(r.state))

\* Lines 96-102, d being what decoder.decode returned.
decode_step(p, d) == Ran([p EXCEPT !.decoder = d.state], d.characters, d.raised, TRUE)

\* Lines 95-96: the decoder is called only with symbols.
symbols_step(p, symbols) ==
    IF symbols = <<>> THEN Ran(p, <<>>, FALSE, TRUE)
    ELSE decode_step(p, decode(p.decoder, symbols))

\* Lines 89-92: the timing snapshot is updated only when there are stats.
timing_recorded(p, stats, locked) ==
    IF IsNone(stats) THEN p
    ELSE [p EXCEPT !.state.timing_stats = stats, !.state.is_timing_locked = locked]

\* Lines 86-102, a being what timing_analyzer.analyze returned.
analysis_step(p, a) ==
    symbols_step(timing_recorded([p EXCEPT !.timing_analyzer = a.state],
                                 timing_stats(a.state), is_locked(a.state)),
                 a.symbols)

\* Lines 84-86: the event (the detector returns at most one per chunk) is
\* stamped with the chunk's time and analyzed.
event_step(p, events, now) ==
    IF events = <<>> THEN Ran(p, <<>>, FALSE, TRUE)
    ELSE analysis_step(p, analyze(p.timing_analyzer,
                                  [events[1] EXCEPT !.timestamp = now]))

\* Line 81, t being what tone_detector.detect returned.
tone_step(p, t, now) == event_step([p EXCEPT !.tone_detector = t.state], t.events, now)

\* A guard that looks at the stats only.
tone_due_unguarded(state, freq_stats) == ~IsNone(freq_stats)

\* Line 80
tone_due(state, freq_stats) == state.is_frequency_locked /\ ~IsNone(freq_stats)

\* Lines 79-102 after the frequency step left p.
after_frequency(p, freq_stats, chunk, now) ==
    IF tone_due(p.state, freq_stats)
    THEN tone_step(p, tone_detect(p.tone_detector,
                                  [ num_samples |-> chunk.num_samples,
                                    level       |-> chunk.level,
                                    timestamp   |-> now ]), now)
    ELSE Ran(p, <<>>, FALSE, FALSE)

\* Lines 69-102, r being what frequency_detector.detect returned or raised.
detected_chunk(p, r, chunk, now) ==
    IF r.raised THEN Ran(p, <<>>, TRUE, FALSE)
    ELSE after_frequency(frequency_step(p, r, now), r.result, chunk, now)

\* The body of the loop of run() for one chunk, up to its first yield.
run_chunk(p, chunk, now) ==
    detected_chunk([p EXCEPT !.retuned = FALSE],
                   fd_detect(p.frequency_detector,
                             Audio(chunk.num_samples, chunk.peak, chunk.strong)),
                   chunk, now)

\* A count that is left as it is.
counted_never(state) == state

\* Line 101
counted(state) == [state EXCEPT !.characters_decoded = @ + 1]

\* Lines 100-102: the pair yielded for a character.
yielded_pair(p, char, now) ==
    [char |-> [char EXCEPT !.timestamp = now], state |-> counted(p.state)]

\* Line 102 yields self._state itself, and lines 72-73, 91-92 and 101 assign
\* to fields of that object: what the snapshot yielded as object ref shows
\* is what the orchestrator's state shows, for as long as reset() (line 119)
\* has not put a new object in its place (refs count the objects made).
is_live(ref, made) == ref = made

\* get_state
get_state(p) == p.state

\* CWDecoderPipeline.reset
orchestrator_reset(p) ==
    [ noise_pipeline     |-> pipeline_reset(p.noise_pipeline),
      frequency_detector |-> fd_reset(p.frequency_detector),
      tone_detector      |-> tone_reset(p.tone_detector),
      timing_analyzer    |-> reset(p.timing_analyzer),
      decoder            |-> decoder_reset(p.decoder),
      state              |-> CWDecoderState,
      retuned            |-> p.retuned ]

----------------------------------------------------------------------------
(* The analyzer driven by a keyer: one analyze() call per step *)

\* The keyer's nominal element: 60 ms tones and gaps (20 WPM).
NominalDelta == Ms(60)

\* Off-nominal intervals: an artifact tone, the bootstrap dot/dash boundary,
\* a dash, a very long tone, a repeated timestamp and a timestamp in the past.
OffNominalDeltas == {Ms(20), Ms(120), Ms(180), Ms(600), 0, 0 - Ms(60)}

MaxEvents == 16
MaxDeviations == 2

\* Element durations of the steady keyer and the bounds of its run.
Speeds == {Ms(60), Ms(80)}
MaxKeyEvents == 50
MaxSwitches == 1

\* The state after construction of the three components.
TimingInit ==
    /\ ta = FreshAnalyzer
    /\ hist = <<>>
    /\ out = <<>>
    /\ emitted = <<>>
    /\ pre = FreshAnalyzer
    /\ replayed_at = 0
    /\ n_dev = 0
    /\ speed \in Speeds
    /\ switches = 0
    /\ switch_stats = None

DecoderInit ==
    /\ dec = FreshDecoder
    /\ dec_op = "none"
    /\ dec_in = <<>>
    /\ dec_pre = <<>>
    /\ dec_out = <<>>
    /\ dec_raised = FALSE

NoiseInit ==
    /\ np = FreshPipeline
    /\ np_out = None
    /\ twin = FreshPipeline
    /\ twin_out = None
    /\ compared = FALSE
    /\ n_chunks = 0

FrequencyInit ==
    /\ fd = FreshFrequencyDetector
    /\ fd_op = "none"
    /\ fd_in = None
    /\ fd_pre = FreshFrequencyDetector
    /\ fd_out = None
    /\ fd_raised = FALSE
    /\ streak = 0
    /\ lock_frequency = None
    /\ n_detects = 0

\* The bin of the spectral peak of a 600 Hz tone (593.75 Hz).
----------------------------------------------------------------------------
(* The entities of models.py under the assignments of run() *)

\* The outcome of an assignment statement: the object after it, and whether
\* the statement raised.
Assigned(entity, raised) == [entity |-> entity, raised |-> raised]

\* An assignment to the timestamp of a dataclass that is not frozen.
setattr_plain(entity, value) == Assigned([entity EXCEPT !.timestamp = value], FALSE)

\* entity.timestamp = value on a @dataclass(frozen=True) object: __setattr__
\* raises FrozenInstanceError and the object is as it was.
setattr_timestamp(entity, value) == Assigned(entity, TRUE)

\* What run() does to an entity of each class once a stage has returned it:
\* lines 71, 85 and 100 assign current_time to the timestamp of a
\* SignalStats, a ToneEvent and a DecodedCharacter; a MorseSymbol is handed
\* to the decoder as it is (lines 95-96).
run_touch(kind, entity, now) ==
    IF kind = "MorseSymbol" THEN Assigned(entity, FALSE)
    ELSE setattr_timestamp(entity, now)

NominalBin == 19

PipelineInit ==
    /\ pl = FreshDecoderPipeline
    /\ run_pc = "awaiting"
    /\ pending = <<>>
    /\ current_time = 0
    /\ clock = 0
    /\ pl_op = "none"
    /\ pl_in = Chunk(chunk_size, NominalBin, TRUE, 0)
    /\ tone_called = FALSE
    /\ last_yield = None
    /\ yielded_ref = 0
    /\ n_yielded = 0
    /\ pre_count = 0
    /\ pre_fd = FreshFrequencyDetector
    /\ n_holds = 0
    /\ n_odd = 0
    /\ n_resets = 0
    /\ n_pl_chunks = 0

SquelchInit ==
    /\ sq = FreshGate
    /\ sq_pre = FreshGate
    /\ sq_rms = 0
    /\ sq_op = "none"

ToneInit ==
    /\ td = FreshToneDetector
    /\ td_pre = FreshToneDetector
    /\ td_in = None
    /\ td_out = <<>>
    /\ td_op = "none"
    /\ td_events = <<>>
    /\ td_chunks = 0

EditInit ==
    /\ ed_s1 = <<>>
    /\ ed_s2 = <<>>
    /\ ed_distance = 0
    /\ ed_swapped = 0

ConfigInit ==
    /\ cfg_args = DefaultConfig
    /\ cfg = None
    /\ cfg_raised = "none"
    /\ cfg_op = "none"
    /\ stage_config = None

QueueInit ==
    /\ sc_queue = <<>>
    /\ sc_getter = "none"
    /\ sc_running = FALSE
    /\ cb_pc = "idle"
    /\ cb_chunk = 0
    /\ rd_pc = "idle"
    /\ captured = 0
    /\ delivered = <<>>
    /\ dropped = {}
    /\ drop_queue = None

EntityInit ==
    /\ ent = None
    /\ ent_made = None
    /\ ent_kind = "none"
    /\ ent_op = "none"
    /\ ent_now = 0
    /\ ent_raised = FALSE

Init ==
    /\ TimingInit /\ speed = NominalDelta
    /\ DecoderInit /\ NoiseInit /\ FrequencyInit /\ PipelineInit /\ EntityInit /\ SquelchInit /\ QueueInit /\ ConfigInit /\ ToneInit /\ EditInit

\* One call of analyze(event) and the bookkeeping of what was sent and returned.
Feed(event) ==
    LET r == analyze(ta, event)
    IN  /\ ta' = r.state
        /\ out' = r.symbols
        /\ emitted' = emitted \o r.symbols
        /\ hist' = Append(hist, event)
        /\ pre' = ta
        /\ replayed_at' = IF replay_due(ta) THEN Len(hist) + 1 ELSE replayed_at

\* The keyer of Spec: nominally alternating polarity 60 ms apart; at most
\* MaxDeviations events deviate, by keeping the polarity (flip false) or by
\* coming at an off-nominal interval.
Key(flip, delta) ==
    /\ Len(hist) < MaxEvents
    /\ n_dev + (IF flip /\ delta = NominalDelta THEN 0 ELSE 1) <= MaxDeviations
    /\ LET event == IF hist = <<>>
                    THEN ToneEvent(flip, 0)
                    ELSE ToneEvent(IF flip THEN ~Last(hist).is_tone_on
                                           ELSE Last(hist).is_tone_on,
                                   Last(hist).timestamp + delta)
       IN  /\ hist = <<>> => delta = NominalDelta
           /\ ~flip => delta = NominalDelta
           /\ event.timestamp >= 0
           /\ Feed(event)
    /\ n_dev' = n_dev + (IF flip /\ delta = NominalDelta THEN 0 ELSE 1)
    /\ UNCHANGED <<speed, switches, switch_stats, decoderVars, noiseVars, freqVars, pipeVars, entityVars, restVars>>

\* reset() of the analyzer; the keyer starts a new transmission.
Reset ==
    /\ hist # <<>>
    /\ ta' = reset(ta)
    /\ hist' = <<>>
    /\ out' = <<>>
    /\ emitted' = <<>>
    /\ pre' = FreshAnalyzer
    /\ replayed_at' = 0
    /\ n_dev' = 0
    /\ UNCHANGED <<speed, switches, switch_stats, decoderVars, noiseVars, freqVars, pipeVars, entityVars, restVars>>

Next ==
    \/ \E flip \in BOOLEAN, delta \in {NominalDelta} \cup OffNominalDeltas : Key(flip, delta)
    \/ Reset

Spec == Init /\ [][Next]_vars

\* Intervals on and next to the two gap boundaries of a 60 ms dot (120 ms
\* and 300 ms), one between them, and a longer dot that moves the estimate.
GapDeltas == {Ms(120) - 1, Ms(120), Ms(180), Ms(300) - 1, Ms(300), Ms(80)}

NextGaps ==
    \/ \E flip \in BOOLEAN, delta \in {NominalDelta} \cup GapDeltas : Key(flip, delta)
    \/ Reset

SpecGaps == Init /\ [][NextGaps]_vars

\* The keyer of SpecKeying: strictly alternating events, tones and gaps of the
\* current element duration; the duration may change when a tone starts.
KeySteady(d) ==
    /\ Len(hist) < MaxKeyEvents
    /\ LET on == IF hist = <<>> THEN TRUE ELSE ~Last(hist).is_tone_on
           t  == IF hist = <<>> THEN 0 ELSE Last(hist).timestamp + speed
       IN  /\ d # speed => (on /\ hist # <<>> /\ switches < MaxSwitches)
           /\ Feed(ToneEvent(on, t))
    /\ speed' = d
    /\ switches' = IF d # speed THEN switches + 1 ELSE switches
    /\ switch_stats' = IF d # speed THEN timing_stats(ta) ELSE switch_stats
    /\ UNCHANGED <<n_dev, decoderVars, noiseVars, freqVars, pipeVars, entityVars, restVars>>

InitKeying == TimingInit /\ DecoderInit /\ NoiseInit /\ FrequencyInit /\ PipelineInit /\ EntityInit /\ SquelchInit /\ QueueInit /\ ConfigInit /\ ToneInit /\ EditInit

NextKeying == \E d \in Speeds : KeySteady(d)

SpecKeying == InitKeying /\ [][NextKeying]_vars

\* Element durations of a keyer at 2, 4, 6, about 11 and 20 WPM.
RangeSpeeds == {Ms(600), Ms(300), Ms(200), Ms(110), Ms(60)}

InitRange ==
    /\ ta = FreshAnalyzer
    /\ hist = <<>>
    /\ out = <<>>
    /\ emitted = <<>>
    /\ pre = FreshAnalyzer
    /\ replayed_at = 0
    /\ n_dev = 0
    /\ speed \in RangeSpeeds
    /\ switches = 0
    /\ switch_stats = None
    /\ DecoderInit /\ NoiseInit /\ FrequencyInit /\ PipelineInit /\ EntityInit
    /\ SquelchInit /\ QueueInit /\ ConfigInit /\ ToneInit /\ EditInit

NextRange == \E d \in RangeSpeeds : KeySteady(d)

\* Element durations of the long runs: 20 ms tones, which the outlier filter
\* drops so that the analyzer never locks, and 60 ms and 180 ms tones, which
\* fill the dot and the dash samples.
LongSpeeds == {Ms(20), Ms(60), Ms(180)}

\* Events of a long run: two more than the event history holds.
MaxLongEvents == 102

\* The keyer of SpecBuffers: strictly alternating events at one element
\* duration; one tone of the run may be 10 ms longer than the others.
KeyLong(extra) ==
    /\ Len(hist) < MaxLongEvents
    /\ LET on == IF hist = <<>> THEN TRUE ELSE ~Last(hist).is_tone_on
           t  == IF hist = <<>> THEN 0 ELSE Last(hist).timestamp + speed + extra
       IN  /\ extra # 0 => (~on /\ n_dev = 0)
           /\ Feed(ToneEvent(on, t))
    /\ n_dev' = IF extra # 0 THEN 1 ELSE n_dev
    /\ UNCHANGED <<speed, switches, switch_stats, decoderVars, noiseVars, freqVars, pipeVars,
                   entityVars, restVars>>

InitBuffers ==
    /\ ta = FreshAnalyzer
    /\ hist = <<>>
    /\ out = <<>>
    /\ emitted = <<>>
    /\ pre = FreshAnalyzer
    /\ replayed_at = 0
    /\ n_dev = 0
    /\ speed \in LongSpeeds
    /\ switches = 0
    /\ switch_stats = None
    /\ DecoderInit /\ NoiseInit /\ FrequencyInit /\ PipelineInit /\ EntityInit
    /\ SquelchInit /\ QueueInit /\ ConfigInit /\ ToneInit /\ EditInit

NextBuffers ==
    \/ \E extra \in {0, Ms(10)} : KeyLong(extra)
    \/ Reset

SpecBuffers == InitBuffers /\ [][NextBuffers]_vars

SpecRange == InitRange /\ [][NextRange]_vars

\* The keyer of SpecRange with reset(): after a reset the keyer starts again
\* at its current element duration.
NextRearm ==
    \/ \E d \in RangeSpeeds : KeySteady(d)
    \/ Reset

SpecRearm == InitRange /\ [][NextRearm]_vars

----------------------------------------------------------------------------
(* The decoder driven by a symbol source: one decode()/flush()/reset() per step *)

\* Longest accumulator the symbol source builds up element by element (the
\* shortest pattern with no table entry within edit distance 1 has 6 elements).
MaxPattern == 6

\* Standard PARIS durations at 20 WPM.
StandardDuration(el) ==
    CASE el = "DOT"         -> Ms(60)
      [] el = "DASH"        -> Ms(180)
      [] el = "ELEMENT_GAP" -> Ms(60)
      [] el = "CHAR_GAP"    -> Ms(180)
      [] el = "WORD_GAP"    -> Ms(420)

RECURSIVE DurationOf(_)
DurationOf(els) ==
    IF els = <<>> THEN 0 ELSE StandardDuration(Head(els)) + DurationOf(Tail(els))

\* The symbols of an element sequence sent back to back from time 0.
Stamped(els) ==
    [k \in 1..Len(els) |->
        [MorseSymbol(els[k], StandardDuration(els[k]))
            EXCEPT !.timestamp = DurationOf(SubSeq(els, 1, k - 1))]]

\* The elements of pattern string p from position i on, with or without
\* ELEMENT_GAPs between them.
RECURSIVE EncodeFrom(_, _, _)
EncodeFrom(p, i, gaps) ==
    IF i > Len(p) THEN <<>>
    ELSE <<IF CharAt(p, i) = "." THEN "DOT" ELSE "DASH">>
         \o (IF gaps /\ i < Len(p) THEN <<"ELEMENT_GAP">> ELSE <<>>)
         \o EncodeFrom(p, i + 1, gaps)

\* A character as it is sent: its elements followed by a CHAR_GAP.
EncodePattern(p, gaps) == Append(EncodeFrom(p, 1, gaps), "CHAR_GAP")

SOS == EncodePattern("...", TRUE) \o EncodePattern("---", TRUE) \o EncodePattern("...", TRUE)

\* Inputs with several gaps: two WORD_GAPs, one gap of each kind, and a
\* character ended by two WORD_GAPs.
GapRuns ==
    { <<"WORD_GAP", "WORD_GAP">>,
      <<"ELEMENT_GAP", "CHAR_GAP", "WORD_GAP">>,
      <<"DOT", "WORD_GAP", "WORD_GAP">> }

\* The bookkeeping of a decoder call: what was passed and what came back (r).
DecoderReturn(op, symbols, r) ==
    /\ dec' = r.state
    /\ dec_op' = op
    /\ dec_in' = symbols
    /\ dec_pre' = dec.current_pattern
    /\ dec_out' = r.characters
    /\ dec_raised' = r.raised
    /\ UNCHANGED <<timingVars, noiseVars, freqVars, pipeVars, entityVars, restVars>>

\* One call of decode(symbols).
DecoderCall(symbols) == DecoderReturn("decode", symbols, decode(dec, symbols))

\* decode() of a single DOT or DASH.
DecodeElement(el) ==
    /\ Len(dec.current_pattern) < MaxPattern
    /\ DecoderCall(Stamped(<<el>>))

\* decode() of a single gap symbol.
DecodeGap(el) == DecoderCall(Stamped(<<el>>))

\* decode() of a run with several gaps, no pattern being open.
DecodeGaps(els) ==
    /\ dec.current_pattern = <<>>
    /\ DecoderCall(Stamped(els))

\* decode() of the k-th table pattern sent as a character, no pattern being open.
DecodeCharacter(k, gaps) ==
    /\ dec.current_pattern = <<>>
    /\ DecoderCall(Stamped(EncodePattern(MORSE_CODE[k][1], gaps)))

\* decode() of the word SOS, no pattern being open.
DecodeSOS ==
    /\ dec.current_pattern = <<>>
    /\ DecoderCall(Stamped(SOS))

Flush == DecoderReturn("flush", <<>>, flush(dec))

ResetDecoder ==
    /\ dec_op # "reset"
    /\ dec' = decoder_reset(dec)
    /\ dec_op' = "reset"
    /\ dec_in' = <<>>
    /\ dec_pre' = dec.current_pattern
    /\ dec_out' = <<>>
    /\ dec_raised' = FALSE
    /\ UNCHANGED <<timingVars, noiseVars, freqVars, pipeVars, entityVars, restVars>>

NextDecoder ==
    \/ \E el \in {"DOT", "DASH"} : DecodeElement(el)
    \/ \E el \in {"ELEMENT_GAP", "CHAR_GAP", "WORD_GAP"} : DecodeGap(el)
    \/ \E els \in GapRuns : DecodeGaps(els)
    \/ \E k \in 1..Len(MORSE_CODE), gaps \in BOOLEAN : DecodeCharacter(k, gaps)
    \/ DecodeSOS
    \/ Flush
    \/ ResetDecoder

SpecDecoder == Init /\ [][NextDecoder]_vars

----------------------------------------------------------------------------
(* The frequency detector driven by a chunk source: one detect() per step *)

\* Chunk lengths (empty, shorter than the FFT window, full), the bins the
\* spectral peak falls in (593.75 Hz and 625 Hz), and the number of calls.
ChunkLengths == {0, 200, chunk_size}
PeakBins == {19, 20}
MaxDetects == 12

\* The chunk is measured by _fft_detect and found above min_snr_db.
Acquiring(d, audio) ==
    /\ audio.num_samples >= chunk_size
    /\ audio.strong
    /\ ~fd_is_locked(d)

\* The run of detections the detector is in after detect(audio) in state d:
\* it begins with a detection made without a hypothesis and goes on while
\* each peak is within 10 Hz of the estimate held before the call.
streak_after(d, audio, run) ==
    IF ~Acquiring(d, audio) THEN 0
    ELSE IF IsNone(d.current_frequency) THEN 1
    ELSE IF run > 0 /\ Abs(bin_frequency(audio.peak) - Val(d.current_frequency)) <= Hz(10)
    THEN run + 1
    ELSE 0

\* The estimate held since the detector locked, None while it is unlocked.
lock_frequency_after(d, after, held) ==
    IF ~fd_is_locked(after) THEN None
    ELSE IF fd_is_locked(d) THEN held
    ELSE after.current_frequency

\* The bookkeeping of a detect() call on the chunk whose result is r.
DetectReturn(audio, r) ==
    /\ fd' = r.state
    /\ fd_op' = "detect"
    /\ fd_in' = audio
    /\ fd_pre' = fd
    /\ fd_out' = r.result
    /\ fd_raised' = r.raised
    /\ streak' = streak_after(fd, audio, streak)
    /\ lock_frequency' = lock_frequency_after(fd, r.state, lock_frequency)
    /\ n_detects' = n_detects + 1
    /\ UNCHANGED <<timingVars, decoderVars, noiseVars, pipeVars, entityVars, restVars>>

Detect(audio) ==
    /\ n_detects < MaxDetects
    /\ DetectReturn(audio, fd_detect(fd, audio))

ResetDetector ==
    /\ fd_op # "reset"
    /\ fd' = fd_reset(fd)
    /\ fd_op' = "reset"
    /\ fd_pre' = fd
    /\ fd_out' = None
    /\ fd_raised' = FALSE
    /\ streak' = 0
    /\ lock_frequency' = None
    /\ UNCHANGED <<fd_in, n_detects, timingVars, decoderVars, noiseVars, pipeVars, entityVars, restVars>>

NextFrequency ==
    \/ \E n \in ChunkLengths, k \in PeakBins, strong \in BOOLEAN :
          Detect(Audio(n, k, strong))
    \/ ResetDetector

SpecFrequency == Init /\ [][NextFrequency]_vars

----------------------------------------------------------------------------
(* The orchestrator driven by an audio source and a consumer of run() *)

\* The time a chunk lasts, in ticks of 10 us (32 ms).
ChunkDuration == (chunk_size * 100000) \div sample_rate

\* The source keys full-scale tone and silence, nominally toggling with
\* every chunk (32 ms elements) in full chunks with a strong peak in the
\* nominal bin.  A bounded number of chunks keep the previous level (longer
\* tones and gaps), and a bounded number are odd: weak, peaking in the other
\* bin, or shorter than a full chunk.
Levels == {0, 1000}
PipelineLengths == {200, chunk_size}
MaxPipelineChunks == 19
MaxHolds == 2
MaxOdd == 1
MaxResets == 1

Odd(c) == c.num_samples # chunk_size \/ c.peak # NominalBin \/ ~c.strong

\* An odd chunk is odd in one respect: short, or off the nominal bin, or weak.
OddInOneRespect(c) ==
    /\ c.num_samples # chunk_size => (c.peak = NominalBin /\ c.strong)
    /\ c.peak # NominalBin => c.strong

Held(c) == c.level = pl_in.level

\* run() increments the count and yields the first of chars with the snapshot.
Yield(p, chars, now) ==
    /\ pl' = [p EXCEPT !.state = counted(p.state)]
    /\ last_yield' = Some(yielded_pair(p, chars[1], now))
    /\ yielded_ref' = n_resets
    /\ pending' = Tail(chars)
    /\ n_yielded' = n_yielded + 1
    /\ run_pc' = "yielded"

\* run() has taken chunk c at time now and got as far as r.
ChunkDone(c, now, r) ==
    /\ pl_op' = "chunk"
    /\ pl_in' = c
    /\ tone_called' = r.tone_called
    /\ pre_count' = pl.state.characters_decoded
    /\ pre_fd' = pl.frequency_detector
    /\ clock' = now
    /\ current_time' = now
    /\ n_pl_chunks' = n_pl_chunks + 1
    /\ n_holds' = IF Held(c) THEN n_holds + 1 ELSE n_holds
    /\ n_odd' = IF Odd(c) THEN n_odd + 1 ELSE n_odd
    /\ IF r.raised
       THEN /\ pl' = r.pipeline
            /\ run_pc' = "raised"
            /\ pending' = <<>>
            /\ UNCHANGED <<last_yield, yielded_ref, n_yielded>>
       ELSE IF r.chars = <<>>
       THEN /\ pl' = r.pipeline
            /\ run_pc' = "awaiting"
            /\ pending' = <<>>
            /\ UNCHANGED <<last_yield, yielded_ref, n_yielded>>
       ELSE Yield(r.pipeline, r.chars, now)
    /\ UNCHANGED <<n_resets, timingVars, decoderVars, noiseVars, freqVars, entityVars, restVars>>

\* The audio source produces chunk c and run() processes it up to its first
\* yield, or to the end of the loop body.
NextChunk(c) ==
    /\ run_pc = "awaiting"
    /\ n_pl_chunks < MaxPipelineChunks
    /\ Held(c) => n_holds < MaxHolds
    /\ Odd(c) => (n_odd < MaxOdd /\ OddInOneRespect(c))
    /\ ChunkDone(c, clock + ChunkDuration,
                 run_chunk(pl, c, clock + ChunkDuration))

\* The consumer asks for the next pair: run() yields the next character of
\* the chunk, or goes back to waiting for a chunk.
Resume ==
    /\ run_pc = "yielded"
    /\ pl_op' = "resume"
    /\ pre_count' = pl.state.characters_decoded
    /\ IF pending # <<>>
       THEN Yield(pl, pending, current_time)
       ELSE /\ run_pc' = "awaiting"
            /\ UNCHANGED <<pl, pending, last_yield, yielded_ref, n_yielded>>
    /\ UNCHANGED <<current_time, clock, pl_in, tone_called, pre_fd, n_holds, n_odd,
                   n_resets, n_pl_chunks, timingVars, decoderVars, noiseVars, freqVars, entityVars, restVars>>

\* The audio source ends: the loop of run() is left and run() returns.
EndStream ==
    /\ run_pc = "awaiting"
    /\ run_pc' = "ended"
    /\ pl_op' = "end"
    /\ pre_count' = pl.state.characters_decoded
    /\ UNCHANGED <<pl, pending, current_time, clock, pl_in, tone_called, last_yield, yielded_ref,
                   n_yielded, pre_fd, n_holds, n_odd, n_resets, n_pl_chunks,
                   timingVars, decoderVars, noiseVars, freqVars, entityVars, restVars>>

\* The consumer calls reset() while run() waits for a chunk or stands at a yield.
ResetPipeline ==
    /\ run_pc \in {"awaiting", "yielded"}
    /\ n_resets < MaxResets
    /\ pl' = orchestrator_reset(pl)
    /\ clock' = 0
    /\ pl_op' = "reset"
    /\ pre_count' = pl.state.characters_decoded
    /\ n_yielded' = 0
    /\ n_resets' = n_resets + 1
    /\ UNCHANGED <<run_pc, pending, current_time, pl_in, tone_called, last_yield, yielded_ref, pre_fd,
                   n_holds, n_odd, n_pl_chunks, timingVars, decoderVars, noiseVars,
                   freqVars, entityVars, restVars>>

NextPipeline ==
    \/ \E n \in PipelineLengths, k \in PeakBins, strong \in BOOLEAN, level \in Levels :
          NextChunk(Chunk(n, k, strong, level))
    \/ Resume
    \/ EndStream
    \/ ResetPipeline

SpecPipeline == Init /\ [][NextPipeline]_vars

----------------------------------------------------------------------------
(* Entities created by the stages and touched by run() *)

\* The times of the first chunks of a stream.
ChunkTimes == {0, ChunkDuration, 2 * ChunkDuration}

\* What the stages create: SignalStats with timestamp 0.0 (frequency.py 139,
\* 211), ToneEvents stamped with the audio's timestamp (tone.py 109, 120),
\* MorseSymbols with timestamp 0.0 (adaptive.py 210-314) and
\* DecodedCharacters with timestamp 0.0 (morse.py 187-206).
Entities(kind) ==
    IF kind = "SignalStats"
    THEN {SignalStats(bin_frequency(k)) : k \in PeakBins}
    ELSE IF kind = "ToneEvent"
    THEN {ToneEvent(on, t) : on \in BOOLEAN, t \in ChunkTimes}
    ELSE IF kind = "MorseSymbol"
    THEN {MorseSymbol(el, d) : el \in {"DOT", "DASH", "CHAR_GAP"},
                               d \in {ChunkDuration, 3 * ChunkDuration}}
    ELSE {DecodedCharacter(MORSE_CODE[k][2], Thirtieths(10), 0, MORSE_CODE[k][1]) :
              k \in 1..Len(MORSE_CODE)}

EntityKinds == {"SignalStats", "ToneEvent", "MorseSymbol", "DecodedCharacter"}

\* A stage creates an entity and returns it to run().
Construct(kind, e) ==
    /\ ent' = Some(e)
    /\ ent_made' = Some(e)
    /\ ent_kind' = kind
    /\ ent_op' = "construct"
    /\ ent_now' = 0
    /\ ent_raised' = FALSE
    /\ UNCHANGED <<timingVars, decoderVars, noiseVars, freqVars, pipeVars, restVars>>

\* run() has touched the entity and got r.
Touched(now, r) ==
    /\ ent' = Some(r.entity)
    /\ ent_raised' = r.raised
    /\ ent_now' = now
    /\ ent_op' = "touch"
    /\ UNCHANGED <<ent_made, ent_kind, timingVars, decoderVars, noiseVars, freqVars, pipeVars, restVars>>

\* run() comes to its step on the entity, in a chunk taken at time now.
Touch(now) ==
    /\ ent_op = "construct"
    /\ Touched(now, run_touch(ent_kind, Val(ent), now))

NextEntities ==
    \/ \E kind \in EntityKinds : \E e \in Entities(kind) : Construct(kind, e)
    \/ \E now \in ChunkTimes \ {0} : Touch(now)

SpecEntities == Init /\ [][NextEntities]_vars

----------------------------------------------------------------------------
(* The squelch gate driven by chunks of given RMS level *)

\* RMS levels of the chunks: silence, levels that bring a closed gate's
\* smoothed level next to and onto the bounds of the band, and strong signal.
RmsLevels == {0, 300, 500, 700, 710, 2000}

\* squelch.process(chunk) with a chunk of RMS level rms
GateProcess(rms) ==
    /\ sq_pre' = sq
    /\ sq_rms' = rms
    /\ sq_op' = "process"
    /\ sq' = gate_process(sq, rms).state
    /\ UNCHANGED <<baseVars, queueVars, configVars, toneVars, editVars>>

\* squelch.reset()
GateReset ==
    /\ sq_op = "process"
    /\ sq_pre' = sq
    /\ sq_op' = "reset"
    /\ sq' = gate_reset(sq)
    /\ UNCHANGED <<sq_rms, baseVars, queueVars, configVars, toneVars, editVars>>

NextSquelch ==
    \/ \E rms \in RmsLevels : GateProcess(rms)
    \/ GateReset

SpecSquelch == Init /\ [][NextSquelch]_vars

----------------------------------------------------------------------------
(* _edit_distance called on pairs of patterns *)

\* Longest string passed to _edit_distance.
MaxEditLen == 3

\* The strings over '.' and '-' of up to that length, the empty one included.
EditStrings == UNION {[1..n -> {".", "-"}] : n \in 0..MaxEditLen}

\* One call _edit_distance(s1, s2), and the call with the strings exchanged.
EditDistance(s1, s2) ==
    /\ ed_s1' = s1
    /\ ed_s2' = s2
    /\ ed_distance' = edit_distance(s1, s2)
    /\ ed_swapped' = edit_distance(s2, s1)
    /\ UNCHANGED <<baseVars, squelchVars, queueVars, configVars, toneVars>>

NextEdit == \E s1, s2 \in EditStrings : EditDistance(s1, s2)

SpecEdit == Init /\ [][NextEdit]_vars

----------------------------------------------------------------------------
(* The tone detector driven by a chunk source *)

\* RMS levels of the chunks, in thousandths of full scale.
ToneLevels == {0, 100, 400, 640, 1000}

\* Chunks passed to the tone detector.
MaxToneChunks == 6

\* One detect() call with the next chunk of the stream: chunk_size samples
\* at the given level, stamped with the time of its first sample.
ToneDetect(level) ==
    /\ td_chunks < MaxToneChunks
    /\ LET audio == [num_samples |-> chunk_size, level |-> level,
                     timestamp |-> td_chunks * ChunkDuration]
           r     == tone_detect(td, audio)
       IN  /\ td' = r.state
           /\ td_pre' = td
           /\ td_in' = Some(audio)
           /\ td_out' = r.events
           /\ td_events' = td_events \o r.events
    /\ td_op' = "detect"
    /\ td_chunks' = td_chunks + 1
    /\ UNCHANGED <<baseVars, squelchVars, queueVars, configVars, editVars>>

ResetTone ==
    /\ td_op = "detect"
    /\ td' = tone_reset(td)
    /\ td_pre' = td
    /\ td_in' = None
    /\ td_out' = <<>>
    /\ td_op' = "reset"
    /\ td_events' = <<>>
    /\ UNCHANGED <<td_chunks, baseVars, squelchVars, queueVars, configVars, editVars>>

NextTone ==
    \/ \E level \in ToneLevels : ToneDetect(level)
    \/ ResetTone

SpecTone == Init /\ [][NextTone]_vars

----------------------------------------------------------------------------
(* Configurations built by a caller and handed to the stages *)

Fields == DOMAIN DefaultConfig

\* The values a caller passes for a field: on each side of every test
\* __post_init__ applies to it, and on the test's boundary.
FieldValues(f) ==
    CASE f \in {"agc_target", "squelch_threshold", "squelch_hysteresis", "tone_threshold"} ->
             {0 - 100, 0, FullScale \div 2, FullScale, FullScale + 500}
      [] f = "min_freq" -> {0 - 100, 0, 500, 1200}
      [] f = "max_freq" -> {200, 500, 1200}
      [] f = "min_snr_db" -> {0 - 1, 0, 6}
      [] f = "min_wpm" -> {0 - 1, 0, 20, 55}
      [] f = "max_wpm" -> {4, 5, 20}
      [] OTHER -> {0 - 1, 0, 1}

\* The field whose test in __post_init__ compares it with f, or f itself.
Partner(f) ==
    CASE f = "min_freq" -> {f, "max_freq"}
      [] f = "min_wpm" -> {f, "max_wpm"}
      [] OTHER -> {f}

\* The defaults with one field given by the caller, or the two of a pair.
ArgsWith(f, v, g, w) == [[DefaultConfig EXCEPT ![f] = v] EXCEPT ![g] = w]

ConstructConfig(args) ==
    /\ cfg_args' = args
    /\ cfg' = new_config(args).object
    /\ cfg_raised' = new_config(args).raised
    /\ cfg_op' = "construct"
    /\ UNCHANGED <<stage_config, baseVars, squelchVars, queueVars, toneVars, editVars>>

\* The stages are constructed with the configuration object, as in
\* cli.py lines 296-301; there is an object only if CWConfig(...) returned.
BuildStages ==
    /\ ~IsNone(cfg)
    /\ stage_config' = cfg
    /\ cfg_raised' = "none"
    /\ cfg_op' = "stages"
    /\ UNCHANGED <<cfg_args, cfg, baseVars, squelchVars, queueVars, toneVars, editVars>>

\* cli.py lines 290-293: CWConfig() and the assignments of the arguments.
CliConfigure ==
    /\ cfg_args' = DefaultConfig
    /\ cfg' = cli_configure(new_config(DefaultConfig).object).config
    /\ cfg_raised' = cli_configure(new_config(DefaultConfig).object).raised
    /\ cfg_op' = "cli"
    /\ UNCHANGED <<stage_config, baseVars, squelchVars, queueVars, toneVars, editVars>>

NextConfig ==
    \/ \E f \in Fields : \E g \in Partner(f) : \E v \in FieldValues(f), w \in FieldValues(g) :
           ConstructConfig(ArgsWith(f, v, g, w))
    \/ BuildStages
    \/ CliConfigure

SpecConfig == Init /\ [][NextConfig]_vars

----------------------------------------------------------------------------
(* Live capture: audio_callback on the capture thread, read() on the loop *)

\* The number of chunks the sound card captures.
MaxCaptured == 12

\* __aiter__ / read, lines 44-45 and 62-63: the first read starts the stream.
StartStream ==
    /\ ~sc_running
    /\ rd_pc = "idle"
    /\ sc_running' = TRUE
    /\ UNCHANGED <<sc_queue, sc_getter, cb_pc, cb_chunk, rd_pc, captured, delivered, dropped,
                   drop_queue, baseVars, squelchVars, configVars, toneVars, editVars>>

\* The sound card has a chunk: audio_callback is entered with it (line 102).
Capture ==
    /\ sc_running
    /\ cb_pc = "idle"
    /\ captured < MaxCaptured
    /\ captured' = captured + 1
    /\ cb_chunk' = captured + 1
    /\ cb_pc' = "full"
    /\ UNCHANGED <<sc_queue, sc_getter, sc_running, rd_pc, delivered, dropped, drop_queue,
                   baseVars, squelchVars, configVars, toneVars, editVars>>

\* put_nowait, its test of full(): QueueFull is raised and suppressed
\* (line 107) and the callback returns, or the chunk goes on to be put.
CallbackFull ==
    /\ cb_pc = "full"
    /\ IF full(sc_queue)
       THEN /\ cb_pc' = "idle"
            /\ dropped' = dropped \cup {cb_chunk}
            /\ drop_queue' = Some([before |-> sc_queue, after |-> sc_queue])
       ELSE /\ cb_pc' = "put"
            /\ UNCHANGED <<dropped, drop_queue>>
    /\ UNCHANGED <<sc_queue, sc_getter, sc_running, cb_chunk, rd_pc, captured, delivered,
                   baseVars, squelchVars, configVars, toneVars, editVars>>

\* put_nowait, its self._put(item)
CallbackPut ==
    /\ cb_pc = "put"
    /\ sc_queue' = put(sc_queue, cb_chunk)
    /\ cb_pc' = "wake"
    /\ UNCHANGED <<sc_getter, sc_running, cb_chunk, rd_pc, captured, delivered, dropped,
                   drop_queue, baseVars, squelchVars, configVars, toneVars, editVars>>

\* put_nowait, its self._wakeup_next(self._getters); the callback returns.
CallbackWake ==
    /\ cb_pc = "wake"
    /\ sc_getter' = wakeup_next(sc_getter)
    /\ cb_pc' = "idle"
    /\ UNCHANGED <<sc_queue, sc_running, cb_chunk, rd_pc, captured, delivered, dropped,
                   drop_queue, baseVars, squelchVars, configVars, toneVars, editVars>>

CallbackStep == CallbackFull \/ CallbackPut \/ CallbackWake

\* read() is called and comes to 'await self._queue.get()' (line 48).
ReadCall ==
    /\ sc_running
    /\ rd_pc = "idle"
    /\ rd_pc' = "empty"
    /\ UNCHANGED <<sc_queue, sc_getter, sc_running, cb_pc, cb_chunk, captured, delivered,
                   dropped, drop_queue, baseVars, squelchVars, configVars, toneVars, editVars>>

\* Queue.get, its 'while self.empty()'
ReadEmpty ==
    /\ rd_pc = "empty"
    /\ rd_pc' = IF empty(sc_queue) THEN "register" ELSE "get"
    /\ UNCHANGED <<sc_queue, sc_getter, sc_running, cb_pc, cb_chunk, captured, delivered,
                   dropped, drop_queue, baseVars, squelchVars, configVars, toneVars, editVars>>

\* Queue.get, its self._getters.append(getter)
ReadRegister ==
    /\ rd_pc = "register"
    /\ sc_getter' = "pending"
    /\ rd_pc' = "await"
    /\ UNCHANGED <<sc_queue, sc_running, cb_pc, cb_chunk, captured, delivered, dropped,
                   drop_queue, baseVars, squelchVars, configVars, toneVars, editVars>>

\* Queue.get, its 'await getter': resumed once the future is resolved.
ReadAwait ==
    /\ rd_pc = "await"
    /\ sc_getter = "done"
    /\ sc_getter' = "none"
    /\ rd_pc' = "empty"
    /\ UNCHANGED <<sc_queue, sc_running, cb_pc, cb_chunk, captured, delivered, dropped,
                   drop_queue, baseVars, squelchVars, configVars, toneVars, editVars>>

\* Queue.get, its 'return self.get_nowait()': the oldest chunk is taken and
\* read() returns it to the loop (lines 50-54).
ReadGet ==
    /\ rd_pc = "get"
    /\ ~empty(sc_queue)
    /\ sc_queue' = get_item(sc_queue).queue
    /\ delivered' = Append(delivered, get_item(sc_queue).item)
    /\ rd_pc' = "idle"
    /\ UNCHANGED <<sc_getter, sc_running, cb_pc, cb_chunk, captured, dropped, drop_queue,
                   baseVars, squelchVars, configVars, toneVars, editVars>>

NextCapture ==
    \/ StartStream
    \/ Capture
    \/ CallbackFull
    \/ CallbackPut
    \/ CallbackWake
    \/ ReadCall
    \/ ReadEmpty
    \/ ReadRegister
    \/ ReadAwait
    \/ ReadGet

SpecCapture == Init /\ [][NextCapture]_vars

----------------------------------------------------------------------------
(* The noise pipeline driven by a chunk source and a retuning caller *)

\* The kinds of chunk fed, the frequencies retuned to, and the number of
\* chunks fed between two resets.
Chunks == {"tone", "noise"}
RetuneTargets == {600, 700, 800}
MaxChunks == 2

\* process(chunk) on the pipeline and, after a reset(), on the fresh twin.
Process(chunk) ==
    /\ n_chunks < MaxChunks
    /\ LET r == process(np, AudioSample(chunk))
           f == process(twin, AudioSample(chunk))
       IN  /\ np' = r.state
           /\ np_out' = Some(r.audio)
           /\ twin' = IF compared THEN f.state ELSE twin
           /\ twin_out' = IF compared THEN Some(f.audio) ELSE twin_out
    /\ n_chunks' = n_chunks + 1
    /\ UNCHANGED <<compared, timingVars, decoderVars, freqVars, pipeVars, entityVars, restVars>>

\* retune(f); what follows is no longer a reset followed by inputs only.
Retune(f) ==
    /\ np' = pipeline_retune(np, f)
    /\ compared' = FALSE
    /\ UNCHANGED <<np_out, twin, twin_out, n_chunks, timingVars, decoderVars, freqVars, pipeVars, entityVars, restVars>>

\* reset(); a fresh pipeline is constructed next to it.
ResetNoise ==
    /\ np' = pipeline_reset(np)
    /\ np_out' = None
    /\ twin' = FreshPipeline
    /\ twin_out' = None
    /\ compared' = TRUE
    /\ n_chunks' = 0
    /\ UNCHANGED <<timingVars, decoderVars, freqVars, pipeVars, entityVars, restVars>>

NextNoise ==
    \/ \E chunk \in Chunks : Process(chunk)
    \/ \E f \in RetuneTargets : Retune(f)
    \/ ResetNoise

SpecNoise == Init /\ [][NextNoise]_vars

----------------------------------------------------------------------------
(* Properties of the timing analyzer *)

\* The events of h alternate in polarity and have strictly increasing timestamps.
WellFormed(h) ==
    \A i \in 2..Len(h) :
        /\ h[i].is_tone_on # h[i - 1].is_tone_on
        /\ h[i].timestamp > h[i - 1].timestamp

\* The durations of the tone intervals (tone-on followed by tone-off) of h, in order.
RECURSIVE ToneIntervalsFrom(_, _)
ToneIntervalsFrom(h, i) ==
    IF i > Len(h) THEN <<>>
    ELSE (IF h[i - 1].is_tone_on /\ ~h[i].is_tone_on
          THEN <<h[i].timestamp - h[i - 1].timestamp>>
          ELSE <<>>) \o ToneIntervalsFrom(h, i + 1)

ToneIntervals(h) == ToneIntervalsFrom(h, 2)

\* The durations of the DOT and DASH symbols of a symbol list, in order.
ToneDurations(syms) ==
    LET tones == SelectSeq(syms, IsTone)
    IN  [k \in 1..Len(tones) |-> tones[k].duration]

\* The events received before the call that replayed the buffer.
PreLockEvents == SubSeq(hist, 1, replayed_at - 1)

LongEnough(d) == d >= Ms(30)

\* The last call is the one that replayed the buffer.
ReplayCall == replayed_at > 0 /\ replayed_at = Len(hist)

\* C1: when the buffer is replayed, everything returned so far contains, in
\* order, exactly one DOT or DASH for every tone interval of at least 30 ms of
\* a well-formed event sequence (at most 100 events) received before lock.
C1_ReplayRecoversTones ==
    (ReplayCall /\ WellFormed(PreLockEvents) /\ Len(PreLockEvents) <= EventCap)
        => ToneDurations(emitted) = SelectSeq(ToneIntervals(PreLockEvents), LongEnough)

\* A replay of a well-formed sequence holding an artifact tone and five real ones.
C1_Witness ==
    /\ ReplayCall
    /\ WellFormed(PreLockEvents)
    /\ Len(ToneDurations(emitted)) >= 5
    /\ Len(ToneIntervals(PreLockEvents)) > Len(ToneDurations(emitted))

\* The interval between the last two events received.
LastInterval == Last(hist).timestamp - hist[Len(hist) - 1].timestamp

\* C2: from the replay call on, while the analyzer stays locked, every pair of
\* consecutive events with positive duration yields its symbol: the DOT/DASH of
\* a tone interval and the gap symbol of a gap, the intervals that end and
\* start at the event of the replay call included.
C2_LiveIntervalsEmitted ==
    ( /\ replayed_at > 0
      /\ Len(hist) >= replayed_at
      /\ is_locked(pre) /\ is_locked(ta)
      /\ LastInterval > 0
      /\ hist[Len(hist) - 1].is_tone_on # Last(hist).is_tone_on )
        => /\ out # <<>>
           /\ Last(out).duration = LastInterval
           /\ IsTone(Last(out)) = hist[Len(hist) - 1].is_tone_on

FirstTone ==
    /\ Len(hist) = 2
    /\ hist[1].is_tone_on /\ ~hist[2].is_tone_on
    /\ hist[2].timestamp > hist[1].timestamp

Keyed(h, n1, d1, d2) ==
    /\ h # <<>>
    /\ h[1] = ToneEvent(TRUE, 0)
    /\ \A i \in 2..Len(h) :
         /\ h[i].is_tone_on # h[i - 1].is_tone_on
         /\ h[i].timestamp - h[i - 1].timestamp = (IF i <= 2 * n1 + 1 THEN d1 ELSE d2)

\* C5: after 15 tones of 60 ms separated by 60 ms gaps the analyzer is locked
\* and reports a speed within [18, 22] WPM.
C5_LocksOnSteadyDots ==
    (Len(hist) = 30 /\ Keyed(hist, 15, Ms(60), Ms(60)))
        => /\ is_locked(ta)
           /\ 18000 <= Val(timing_stats(ta)).wpm
           /\ Val(timing_stats(ta)).wpm <= 22000

C5_Witness ==
    /\ Len(hist) = 30 /\ Keyed(hist, 15, Ms(60), Ms(60))
    /\ ~IsNone(timing_stats(ta))
    /\ Val(timing_stats(ta)).num_samples >= 10

\* C6: after 10 dots of 60 ms the analyzer is locked; during 15 further dots
\* of 80 ms statistics stay available, and after them the reported dot
\* duration is strictly greater and the reported WPM strictly smaller than
\* the statistics read before the switch.
C6_AdaptsToSlowerKeying ==
    (Len(hist) >= 20 /\ Len(hist) <= 50 /\ Keyed(hist, 10, Ms(60), Ms(80)))
        => /\ ~IsNone(timing_stats(ta))
           /\ Len(hist) = 50 =>
                /\ ~IsNone(switch_stats)
                /\ Val(timing_stats(ta)).dot_duration > Val(switch_stats).dot_duration
                /\ Val(timing_stats(ta)).wpm < Val(switch_stats).wpm

C6_Witness ==
    /\ Len(hist) = 50 /\ Keyed(hist, 10, Ms(60), Ms(80))
    /\ switches = 1
    /\ ~IsNone(switch_stats) /\ Val(switch_stats).dot_duration = Ms(60)
    /\ ~IsNone(timing_stats(ta))

\* The event of the last call is not later than the analyzer's previous event.
Discarded ==
    /\ hist # <<>>
    /\ ~IsNone(pre.last_event)
    /\ Last(hist).timestamp <= Val(pre.last_event).timestamp

\* What C7 says a discarded event leaves unchanged.
DiscardFrame ==
    /\ ta.last_event = pre.last_event
    /\ ta.dot_durations = pre.dot_durations
    /\ ta.dash_durations = pre.dash_durations
    /\ ta.estimated_dot_duration = pre.estimated_dot_duration
    /\ ta.estimated_wpm = pre.estimated_wpm
    /\ ta.lock_count = pre.lock_count

\* C7 as stated: an event with a non-positive duration returns no symbols and
\* leaves previous event, sample buffers, estimate and lock counter unchanged.
C7_DiscardedReturnsNothing == Discarded => (out = <<>> /\ DiscardFrame)

\* C7 amended: such an event yields no symbol of its own - the call returns
\* the empty list or, when it is the call that replays the buffer, only the
\* replayed symbols of the earlier events - and the fields are unchanged.
C7_DiscardedYieldsNoSymbol ==
    Discarded =>
        /\ DiscardFrame
        /\ \/ out = <<>>
           \/ ReplayCall /\ out = replay_buffered_events(pre)

\* An event from the past arrives while an estimate exists.
C7_Witness ==
    /\ Discarded
    /\ Last(hist).timestamp < Val(pre.last_event).timestamp
    /\ ~IsNone(ta.estimated_dot_duration)
    /\ out = <<>>

----------------------------------------------------------------------------
(* Properties of reset() *)

\* C8: after reset(), the pipeline returns for every chunk what a freshly
\* constructed pipeline returns for it.
C8_ResetEqualsFresh == compared => np_out = twin_out

----------------------------------------------------------------------------
(* Properties of the decoder *)

Elements(symbols) == [k \in 1..Len(symbols) |-> symbols[k].element]

Chars(characters) == [k \in 1..Len(characters) |-> characters[k].char]

\* The last call was decode() of exactly these elements on an empty accumulator.
DecodedFromEmpty(els) ==
    dec_op = "decode" /\ dec_pre = <<>> /\ Elements(dec_in) = els

\* C9: on an empty accumulator, the elements of a table pattern (with or
\* without ELEMENT_GAPs) followed by a CHAR_GAP decode to exactly one
\* character, the table entry, with confidence 1.0 and that pattern; the
\* symbols of S, O, S decode to "SOS" with confidence 1.0 throughout.
C9_TablePatternsDecode ==
    /\ \A k \in 1..Len(MORSE_CODE), gaps \in BOOLEAN :
         DecodedFromEmpty(EncodePattern(MORSE_CODE[k][1], gaps))
            => /\ ~dec_raised
               /\ dec_out = <<DecodedCharacter(MORSE_CODE[k][2], Thirtieths(10), 0,
                                               MORSE_CODE[k][1])>>
    /\ DecodedFromEmpty(SOS)
            => /\ ~dec_raised
               /\ Chars(dec_out) = <<"S", "O", "S">>
               /\ \A k \in 1..Len(dec_out) : dec_out[k].confidence = Thirtieths(10)

\* SOS has been decoded on an empty accumulator.
C9_Witness == DecodedFromEmpty(SOS) /\ Len(dec_out) = 3 /\ dec.current_pattern = <<>>

IsWordGap(symbol) == symbol.element = "WORD_GAP"

IsSpace(character) ==
    /\ character.char = " "
    /\ character.confidence = Thirtieths(10)
    /\ character.morse_pattern = ""

\* C10: a decode() call holding WORD_GAPs returns one space of confidence 1.0
\* per WORD_GAP; a WORD_GAP first finalizes the open pattern, so a call of a
\* single WORD_GAP returns the open pattern's character, if any, and then the
\* space, and leaves the accumulator empty.
C10_WordGapAppendsSpace ==
    (dec_op = "decode" /\ SelectSeq(dec_in, IsWordGap) # <<>>)
        => /\ ~dec_raised
           /\ Len(SelectSeq(dec_out, IsSpace)) = Len(SelectSeq(dec_in, IsWordGap))
           /\ IsWordGap(Last(dec_in)) =>
                /\ dec.current_pattern = <<>>
                /\ IsSpace(Last(dec_out))
           /\ Len(dec_in) = 1 =>
                /\ Len(dec_out) = (IF dec_pre = <<>> THEN 1 ELSE 2)
                /\ dec_pre # <<>> => dec_out[1].morse_pattern = pattern_str(dec_pre)

\* The last call finalized the pattern that was open: flush(), or decode() of
\* a single CHAR_GAP or WORD_GAP.
Finalizing ==
    /\ dec_pre # <<>>
    /\ \/ dec_op = "flush"
       \/ /\ dec_op = "decode"
          /\ Len(dec_in) = 1
          /\ dec_in[1].element \in {"CHAR_GAP", "WORD_GAP"}

\* String b is string a with the character at position i left out.
Without(a, i) == SubSeq(a, 1, i - 1) \o SubSeq(a, i + 1, Len(a))

\* Levenshtein distance exactly 1: one substitution, insertion or deletion.
OneEditApart(a, b) ==
    \/ /\ Len(a) = Len(b)
       /\ Cardinality({i \in 1..Len(a) : CharAt(a, i) # CharAt(b, i)}) = 1
    \/ /\ Len(a) = Len(b) + 1
       /\ \E i \in 1..Len(a) : Without(a, i) = b
    \/ /\ Len(b) = Len(a) + 1
       /\ \E i \in 1..Len(b) : Without(b, i) = a

\* Some table pattern is one edit away from p.
NearTable(p) == \E k \in 1..Len(MORSE_CODE) : OneEditApart(p, MORSE_CODE[k][1])

\* C11: a finalized pattern outside the table but one edit away from a
\* table pattern decodes, without an error, to the character of a table
\* pattern exactly one edit away, with confidence max(0.3, 1 - 1/3) = 2/3,
\* which is at least 0.3 and below 1.0; a finalized table pattern decodes to
\* its own entry with confidence 1.0.
C11_FuzzyNearest ==
    Finalizing =>
        /\ in_table(pattern_str(dec_pre)) =>
              /\ ~dec_raised
              /\ dec_out[1] = DecodedCharacter(table_entry(pattern_str(dec_pre)),
                                               Thirtieths(10), 0, pattern_str(dec_pre))
        /\ (~in_table(pattern_str(dec_pre)) /\ NearTable(pattern_str(dec_pre))) =>
              /\ ~dec_raised
              /\ dec_out[1].confidence = Max2(Thirtieths(3), Thirtieths(10) - 10)
              /\ dec_out[1].confidence >= Thirtieths(3)
              /\ dec_out[1].confidence < Thirtieths(10)
              /\ dec_out[1].morse_pattern = pattern_str(dec_pre)
              /\ \E k \in 1..Len(MORSE_CODE) :
                    /\ OneEditApart(pattern_str(dec_pre), MORSE_CODE[k][1])
                    /\ dec_out[1].char = MORSE_CODE[k][2]

\* The corrupted pattern "..--" (one edit from "..-.", F, the first such
\* entry of the table) has been finalized by a CHAR_GAP and came back as F.
C11_Witness ==
    /\ Finalizing
    /\ dec_op = "decode"
    /\ pattern_str(dec_pre) = "..--"
    /\ ~in_table("..--")
    /\ Len(dec_out) = 1
    /\ dec_out[1].char = "F"
    /\ dec_out[1].confidence = Thirtieths(10) - 10
    /\ dec.current_pattern = <<>>

\* C12: finalizing a pattern two or more edits away from every table pattern
\* raises nothing, returns one placeholder character of confidence 0 that
\* carries the pattern (followed by the space when a WORD_GAP finalized it),
\* and clears the accumulator.
C12_UnknownPlaceholder ==
    (Finalizing /\ ~in_table(pattern_str(dec_pre)) /\ ~NearTable(pattern_str(dec_pre))) =>
        /\ ~dec_raised
        /\ dec_out # <<>>
        /\ dec_out[1].confidence = 0
        /\ dec_out[1].morse_pattern = pattern_str(dec_pre)
        /\ Len(dec_out) = (IF dec_op = "decode" /\ dec_in[1].element = "WORD_GAP"
                           THEN 2 ELSE 1)
        /\ dec.current_pattern = <<>>

\* C13: flush() on an open pattern returns exactly what decode() of a
\* CHAR_GAP would return for it, a single character, and leaves the
\* accumulator empty; flush() on an empty accumulator returns nothing.
C13_FlushDecodesOpenPattern ==
    dec_op = "flush" =>
        /\ ~dec_raised
        /\ dec.current_pattern = <<>>
        /\ dec_pre = <<>> => dec_out = <<>>
        /\ dec_pre # <<>> =>
              /\ Len(dec_out) = 1
              /\ dec_out = decode([dec EXCEPT !.current_pattern = dec_pre],
                                  Stamped(<<"CHAR_GAP">>)).characters

----------------------------------------------------------------------------
(* Properties of the frequency detector *)

\* C15: in a run of above-threshold detections that begins with no
\* hypothesis and whose peaks each stay within 10 Hz of the running
\* estimate, the detector is unlocked after each of the first 4 detections
\* and locked after the 5th.
C15_LocksAtFifthDetection ==
    (fd_op = "detect" /\ streak > 0) =>
        /\ streak <= 5
        /\ fd_is_locked(fd) <=> streak = 5

\* The fifth detection of such a run has just locked the detector.
C15_Witness ==
    /\ fd_op = "detect"
    /\ streak = 5
    /\ ~fd_is_locked(fd_pre)
    /\ fd_is_locked(fd)

\* The last call measured a full chunk below threshold while locked.
LockedDrop ==
    /\ fd_op = "detect"
    /\ fd_is_locked(fd_pre)
    /\ fd_in.num_samples >= chunk_size \div 2
    /\ ~fd_in.strong

\* C16: while locked, a below-threshold measurement decrements the lock
\* counter by one, and the detector is unlocked afterwards only if the
\* counter has reached 0.
C16_UnlocksOnlyAtZero ==
    LockedDrop =>
        /\ fd.lock_count = fd_pre.lock_count - 1
        /\ ~fd_is_locked(fd) => fd.lock_count = 0

\* The tone the detector is fed in the spec's scenario.
TrueTone == Hz(600)

\* C17: while the detector is locked, the stored hypothesis is the estimate
\* held when it locked and every SignalStats returned reports that
\* frequency; if that estimate is within 10 Hz of the true tone, so is
\* every frequency reported while locked.
C17_LockedFrequencyHeld ==
    fd_is_locked(fd) =>
        /\ ~IsNone(lock_frequency)
        /\ fd.current_frequency = lock_frequency
        /\ (fd_op = "detect" /\ ~IsNone(fd_out)) =>
              /\ Val(fd_out).frequency = Val(lock_frequency)
              /\ Abs(Val(lock_frequency) - TrueTone) <= Hz(10)
                    => Abs(Val(fd_out).frequency - TrueTone) <= Hz(10)

\* Locked on 593.75 Hz, the detector has tracked a chunk whose spectral peak
\* lies in another bin and still reports the frequency it locked on.
C17_Witness ==
    /\ fd_op = "detect"
    /\ fd_is_locked(fd_pre)
    /\ fd_is_locked(fd)
    /\ ~IsNone(fd_out)
    /\ Val(fd_out).frequency = bin_frequency(19)
    /\ fd_in.peak = 20
    /\ fd.lock_count > fd_required_lock_samples + 1

----------------------------------------------------------------------------
(* Properties of the orchestrator *)

FrequencyDetectionRan ==
    pl.frequency_detector =
        fd_detect(pre_fd, Audio(pl_in.num_samples, pl_in.peak, pl_in.strong)).state

----------------------------------------------------------------------------
(* Properties of the entities *)

C23_RunNeverRaises ==
    run_pc # "raised"

----------------------------------------------------------------------------
(* Properties of retuning *)

\* C24: retune() leaves the delay state the bandpass filter carries over
\* from the chunks it has filtered as it is.
C24_RetuneKeepsFilterState ==
    [][((\E f \in RetuneTargets : Retune(f)) /\ np.bandpass.zi.fed # <<>>)
          => np'.bandpass.zi = np.bandpass.zi]_vars

----------------------------------------------------------------------------
(* Properties of the squelch gate *)

UpperBound == squelch_threshold + squelch_hysteresis
LowerBound == squelch_threshold - squelch_hysteresis

\* C26: the gate goes from closed to open only on a chunk that takes the
\* smoothed level above threshold + hysteresis, from open to closed only on a
\* chunk that takes it below threshold - hysteresis, and keeps its state
\* whenever the smoothed level lies between the two bounds.
C26_GateChangesAcrossBand ==
    sq_op = "process" =>
        /\ (~sq_pre.is_open /\ sq.is_open) => sq.smoothed_level > UpperBound
        /\ (sq_pre.is_open /\ ~sq.is_open) => sq.smoothed_level < LowerBound
        /\ (LowerBound <= sq.smoothed_level /\ sq.smoothed_level <= UpperBound)
              => sq.is_open = sq_pre.is_open

\* A closed gate has stayed closed on a chunk that brought the smoothed level
\* exactly onto the upper bound.
C26_Witness ==
    /\ sq_op = "process"
    /\ ~sq_pre.is_open
    /\ ~sq.is_open
    /\ sq_pre.smoothed_level < UpperBound
    /\ sq.smoothed_level = UpperBound

----------------------------------------------------------------------------
(* Properties of live capture *)

Increasing(chunks) ==
    \A i, j \in 1..Len(chunks) : i < j => chunks[i] < chunks[j]

\* C27: under any interleaving of audio_callback and read(), the callback
\* can always take its next step whatever read() is doing; the queue never
\* holds more than 10 chunks; a chunk captured while the queue is full is
\* dropped and leaves the queued chunks as they are; the chunks delivered
\* arrive in capture order without duplication, none of them a dropped one.
C27_CaptureHandOff ==
    /\ cb_pc # "idle" => ENABLED CallbackStep
    /\ Len(sc_queue) <= QueueMaxsize
    /\ ~IsNone(drop_queue) =>
          /\ Len(Val(drop_queue).before) = QueueMaxsize
          /\ Val(drop_queue).after = Val(drop_queue).before
    /\ Increasing(delivered \o sc_queue)
    /\ \A i \in 1..Len(delivered) : delivered[i] \notin dropped

\* The eleventh chunk was captured while the queue held ten and was dropped,
\* and the loop has since been handed the first chunk.
C27_Witness ==
    /\ dropped # {}
    /\ Len(delivered) >= 1
    /\ delivered[1] = 1
    /\ captured = MaxCaptured
    /\ cb_pc = "idle"

----------------------------------------------------------------------------
(* Properties of the configuration *)

\* The constraints on a configuration, one disjunct for each.
ConstraintViolated(c) ==
    \/ c.sample_rate <= 0
    \/ c.chunk_size <= 0
    \/ c.min_freq < 0
    \/ c.max_freq <= c.min_freq
    \/ c.min_snr_db < 0
    \/ c.filter_bandwidth <= 0
    \/ \E level \in {c.agc_target, c.squelch_threshold, c.squelch_hysteresis,
                     c.tone_threshold} : level < 0 \/ level > FullScale
    \/ c.agc_attack_ms <= 0
    \/ c.agc_release_ms <= 0
    \/ c.initial_wpm <= 0
    \/ c.min_wpm <= 0
    \/ c.max_wpm <= c.min_wpm

\* C28: constructing a CWConfig raises ValueError exactly when one of the
\* constraints is violated and otherwise returns the object with the values
\* given; the configuration the stages are built with violates no constraint.
C28_ConfigValidatedEagerly ==
    /\ cfg_op = "construct" =>
          /\ cfg_raised = "ValueError" <=> ConstraintViolated(cfg_args)
          /\ cfg_raised = "none" <=> ~ConstraintViolated(cfg_args)
          /\ IsNone(cfg) <=> ConstraintViolated(cfg_args)
          /\ ~IsNone(cfg) => Val(cfg) = cfg_args
    /\ ~IsNone(stage_config) => ~ConstraintViolated(Val(stage_config))

\* A construction refused for a level just outside [0, 1] alone, after the
\* stages were built with an earlier configuration whose level is exactly 1.
C28_Witness ==
    /\ cfg_op = "construct"
    /\ cfg_raised = "ValueError"
    /\ cfg_args = [DefaultConfig EXCEPT !.agc_target = FullScale + 500]
    /\ ~IsNone(stage_config)
    /\ Val(stage_config).squelch_threshold = FullScale

----------------------------------------------------------------------------
(* Properties of gap classification *)

IsGap(symbol) == symbol.element \in {"ELEMENT_GAP", "CHAR_GAP", "WORD_GAP"}

\* The class of a gap of duration d under a dot-duration estimate e.
GapClass(e, d) ==
    CASE d < 2 * e -> "ELEMENT_GAP"
      [] 2 * e <= d /\ d < 5 * e -> "CHAR_GAP"
      [] d >= 5 * e -> "WORD_GAP"

\* The last call was given a tone start later than the tone end before it.
GapEnded ==
    /\ Len(hist) >= 1
    /\ ~IsNone(pre.last_event)
    /\ ~Val(pre.last_event).is_tone_on
    /\ Last(hist).is_tone_on
    /\ Last(hist).timestamp > Val(pre.last_event).timestamp

GapDuration == Last(hist).timestamp - Val(pre.last_event).timestamp

----------------------------------------------------------------------------
(* Properties of the speed range *)

\* min_wpm <= 1.2 / dot <= max_wpm
WithinConfiguredRange(dot) == min_wpm * dot <= Paris /\ Paris <= max_wpm * dot

\* The last call measured a tone: a duration was added to the samples.
ToneMeasured ==
    \/ ta.dot_durations # pre.dot_durations
    \/ ta.dash_durations # pre.dash_durations

\* The raw estimate _update_timing_estimate computed from those samples.
RawEstimate ==
    dot_estimate_of(filter_outliers(ta.dot_durations), filter_outliers(ta.dash_durations))

\* C30: whenever a dot-duration estimate exists its WPM lies within
\* [min_wpm, max_wpm]; an update whose raw estimate is out of range changes
\* neither the estimate nor the lock counter; every TimingStats reported has
\* a WPM within the range.
C30_WpmWithinRange ==
    /\ ~IsNone(ta.estimated_dot_duration) =>
          /\ WithinConfiguredRange(Val(ta.estimated_dot_duration))
          /\ min_wpm * 1000 <= Val(ta.estimated_wpm)
          /\ Val(ta.estimated_wpm) <= max_wpm * 1000
    /\ (ToneMeasured /\ ~IsNone(RawEstimate) /\ ~WithinConfiguredRange(Val(RawEstimate))) =>
          /\ ta.estimated_dot_duration = pre.estimated_dot_duration
          /\ ta.estimated_wpm = pre.estimated_wpm
          /\ ta.lock_count = pre.lock_count
    /\ ~IsNone(timing_stats(ta)) =>
          /\ min_wpm * 1000 <= Val(timing_stats(ta)).wpm
          /\ Val(timing_stats(ta)).wpm <= max_wpm * 1000

\* A locked analyzer was given a tone that puts the raw estimate below
\* min_wpm, and kept its estimate and its lock counter.
C30_Witness ==
    /\ ToneMeasured
    /\ ~IsNone(RawEstimate)
    /\ ~WithinConfiguredRange(Val(RawEstimate))
    /\ is_locked(pre)
    /\ ~IsNone(timing_stats(ta))

----------------------------------------------------------------------------
(* Properties of the timing lock counter *)

\* The last call measured a tone and _update_timing_estimate accepted the
\* raw estimate: there were samples enough and it is within the range.
UpdateAccepted ==
    /\ ToneMeasured
    /\ ~IsNone(pre.estimated_dot_duration) \/ has_enough_samples(ta)
    /\ ~IsNone(RawEstimate)
    /\ WithinConfiguredRange(Val(RawEstimate))

WpmMoved == Abs(Val(ta.estimated_wpm) - Val(pre.estimated_wpm))

\* C31: the lock counter is 1 after the first accepted estimate; a later
\* accepted update adds 1, up to required + 10 = 15, when the smoothed WPM is
\* within 2 of the previous WPM and otherwise takes 1 away, down to 0; the
\* analyzer is locked exactly when the counter is at least 5, and reports
\* timing statistics exactly when it is locked.
C31_LockCounterRule ==
    /\ 0 <= ta.lock_count /\ ta.lock_count <= 15
    /\ (UpdateAccepted /\ IsNone(pre.estimated_dot_duration)) => ta.lock_count = 1
    /\ (UpdateAccepted /\ ~IsNone(pre.estimated_dot_duration)) =>
          IF WpmMoved < 2000
          THEN ta.lock_count = (IF pre.lock_count + 1 > 15 THEN 15 ELSE pre.lock_count + 1)
          ELSE ta.lock_count = (IF pre.lock_count - 1 < 0 THEN 0 ELSE pre.lock_count - 1)
    /\ is_locked(ta) <=> ta.lock_count >= 5
    /\ ~IsNone(timing_stats(ta)) <=> is_locked(ta)

\* An accepted update moved the WPM by 2 or more and took the counter of a
\* locked analyzer from 5 to 4: the analyzer lost its lock.
C31_Witness ==
    /\ UpdateAccepted
    /\ ~IsNone(pre.estimated_dot_duration)
    /\ WpmMoved >= 2000
    /\ pre.lock_count = 5
    /\ ta.lock_count = 4
    /\ IsNone(timing_stats(ta))

----------------------------------------------------------------------------
(* Properties of the initial estimate *)

SamplesRecorded == Len(ta.dot_durations) + Len(ta.dash_durations)

----------------------------------------------------------------------------
(* Properties of the bounded histories *)

\* What a bounded history of the given capacity holds after x arrived:
\* with the capacity reached the oldest entry is gone, the others keep their
\* order and x is the newest.
Received(before, after, x, capacity) ==
    IF Len(before) < capacity
    THEN after = before \o <<x>>
    ELSE /\ Len(after) = capacity
         /\ \A i \in 1..(capacity - 1) : after[i] = before[i + 1]
         /\ after[capacity] = x

\* The last call was given the end of a tone that began before it, and
\* processed it.
ToneEnded ==
    /\ hist # <<>>
    /\ ~replay_due(pre)
    /\ ~IsNone(pre.last_event)
    /\ Val(pre.last_event).is_tone_on
    /\ ~Last(hist).is_tone_on
    /\ Last(hist).timestamp > Val(pre.last_event).timestamp

ToneDuration == Last(hist).timestamp - Val(pre.last_event).timestamp

\* C33: the dot samples and the dash samples never exceed 20 entries and the
\* buffered events never exceed 100; an entry arriving at a full history
\* evicts the oldest one and leaves the others in their order of arrival.
C33_BoundedHistories ==
    /\ Len(ta.dot_durations) <= 20
    /\ Len(ta.dash_durations) <= 20
    /\ Len(ta.buffered_events) <= 100
    /\ (hist # <<>> /\ (~is_locked(pre) \/ replay_due(pre))) =>
          Received(pre.buffered_events, ta.buffered_events, Last(hist), 100)
    /\ (hist # <<>> /\ is_locked(pre) /\ ~replay_due(pre)) =>
          ta.buffered_events = pre.buffered_events
    /\ ToneEnded =>
          \/ /\ Received(pre.dot_durations, ta.dot_durations, ToneDuration, 20)
             /\ ta.dash_durations = pre.dash_durations
          \/ /\ Received(pre.dash_durations, ta.dash_durations, ToneDuration, 20)
             /\ ta.dot_durations = pre.dot_durations
    /\ (hist # <<>> /\ ~ToneEnded) =>
          /\ ta.dot_durations = pre.dot_durations
          /\ ta.dash_durations = pre.dash_durations

\* A tone ended with 100 events buffered and 20 dot samples held, one of
\* them longer than the others: the oldest event and the oldest sample are
\* gone and the new ones are the newest.
C33_Witness ==
    /\ ToneEnded
    /\ Len(pre.buffered_events) = 100
    /\ Len(pre.dot_durations) = 20
    /\ \E i \in 2..20 : pre.dot_durations[i] # pre.dot_durations[1]
    /\ Len(ta.buffered_events) = 100
    /\ ta.buffered_events[1] = pre.buffered_events[2]
    /\ ta.buffered_events[100] = Last(hist)
    /\ ta.dot_durations[1] = pre.dot_durations[2]
    /\ ta.dot_durations[20] = ToneDuration

----------------------------------------------------------------------------
(* Properties of the replay *)

\* C34: in what the replay returns, every gap symbol is directly preceded by
\* a DOT or a DASH: none comes first, none follows another gap.
C34_ReplayGapFollowsTone ==
    ReplayCall =>
        \A i \in 1..Len(out) :
            IsGap(out[i]) => (i > 1 /\ out[i - 1].element \in {"DOT", "DASH"})

\* The tone intervals of the buffer the last call replayed.
BufferedTones == ToneIntervals(pre.buffered_events)

\* The class of a tone of duration d under a dot-duration estimate e.
ToneClass(e, d) == IF d < 2 * e THEN "DOT" ELSE "DASH"

\* C35: the replay returns no symbol for a buffered tone interval shorter
\* than 30 ms and, for every buffered tone interval of 30 ms or more, in
\* order, a DOT if the duration is below twice the estimate and a DASH
\* otherwise, with that duration.
C35_ReplayReclassifiesTones ==
    ReplayCall =>
        LET tones == SelectSeq(out, IsTone)
            kept  == SelectSeq(BufferedTones, LongEnough)
        IN  /\ Len(tones) = Len(kept)
            /\ \A k \in 1..Len(kept) :
                  /\ tones[k].duration = kept[k]
                  /\ tones[k].element = ToneClass(Val(pre.estimated_dot_duration), kept[k])

\* A replay of a buffer holding a 20 ms tone, which gives no symbol, a tone
\* returned as a DASH and tones returned as DOTs.
C35_Witness ==
    /\ ReplayCall
    /\ \E k \in 1..Len(BufferedTones) : BufferedTones[k] = Ms(20)
    /\ \E i, j \in 1..Len(out) : out[i].element = "DASH" /\ out[j].element = "DOT"
    /\ \A i \in 1..Len(out) : out[i].duration # Ms(20)

----------------------------------------------------------------------------
(* Properties of the tone detector *)

\* C36: a detect() call returns at most one event: exactly one when the
\* on/off state flipped, telling the new state and stamped with the chunk's
\* timestamp, and none when it did not; the events since construction or
\* reset alternate tone-on, tone-off, ... beginning with tone-on.
C36_OneEventPerFlip ==
    /\ Len(td_out) <= 1
    /\ td_op = "detect" =>
          /\ Len(td_out) = 1 <=> td.is_tone_on # td_pre.is_tone_on
          /\ Len(td_out) = 1 =>
                /\ td_out[1].is_tone_on = td.is_tone_on
                /\ td_out[1].timestamp = Val(td_in).timestamp
    /\ \A i \in 1..Len(td_events) : td_events[i].is_tone_on <=> (i % 2 = 1)
    /\ \A i \in 2..Len(td_events) : td_events[i].timestamp > td_events[i - 1].timestamp

\* The detector has returned tone-on for a chunk later than its first,
\* tone-off and, for the last chunk, tone-on again, with a chunk that
\* returned nothing in between.
C36_Witness ==
    /\ td_op = "detect"
    /\ Len(td_events) = 3
    /\ Len(td_out) = 1
    /\ td_events[3].timestamp - td_events[1].timestamp > 2 * ChunkDuration
    /\ td_events[1].timestamp > 0

\* C37: with ceiling - floor above the minimum dynamic range (0.05) the
\* state turns on only above floor + 0.45 range + 0.2 range and off only
\* below floor + 0.45 range - 0.2 range; otherwise it turns on only above
\* 1.5 times the configured threshold and off only below half of it.
C37_WorkingThreshold ==
    td_op = "detect" =>
        LET floor   == td.signal_floor
            range   == td.signal_ceiling - td.signal_floor
            level   == Val(td_in).level
            on_at   == IF range > 50 THEN 100 * floor + 65 * range
                       ELSE 150 * config_tone_threshold
            off_at  == IF range > 50 THEN 100 * floor + 25 * range
                       ELSE 50 * config_tone_threshold
        IN  /\ (~td_pre.is_tone_on /\ td.is_tone_on) => 100 * level > on_at
            /\ (td_pre.is_tone_on /\ ~td.is_tone_on) => 100 * level < off_at
            /\ (~td_pre.is_tone_on /\ 100 * level > on_at) => td.is_tone_on
            /\ (td_pre.is_tone_on /\ 100 * level < off_at) => ~td.is_tone_on

----------------------------------------------------------------------------
(* Properties of the edit distance *)

\* The Levenshtein distance by its recurrence on the first characters.
RECURSIVE Levenshtein(_, _)
Levenshtein(a, b) ==
    IF a = <<>> THEN Len(b)
    ELSE IF b = <<>> THEN Len(a)
    ELSE Min3(Levenshtein(Tail(a), b) + 1,
              Levenshtein(a, Tail(b)) + 1,
              Levenshtein(Tail(a), Tail(b)) + (IF Head(a) = Head(b) THEN 0 ELSE 1))

\* C38: _edit_distance(s1, s2) is the Levenshtein distance of s1 and s2:
\* 0 exactly for equal strings, the same with the arguments exchanged, the
\* length of the other string against the empty string, and 1 for strings
\* one insertion, deletion or substitution apart.
C38_EditDistanceIsLevenshtein ==
    /\ ed_distance = Levenshtein(ed_s1, ed_s2)
    /\ ed_distance = 0 <=> ed_s1 = ed_s2
    /\ ed_distance = ed_swapped
    /\ ed_s2 = <<>> => ed_distance = Len(ed_s1)
    /\ ed_s1 = <<>> => ed_distance = Len(ed_s2)
    /\ OneEditApart(ed_s1, ed_s2) => ed_distance = 1

\* The shorter string first, so that the call exchanges its arguments, and
\* a distance taking a substitution and an insertion: '.-' against '-..'.
C38_Witness ==
    /\ ed_s1 = <<".", "-">>
    /\ ed_s2 = <<"-", ".", ".">>
    /\ ed_distance = 2

----------------------------------------------------------------------------
(* Properties of the replay flag *)

\* Whether the analyzer was locked after each of the calls since the last
\* reset, recomputed from the events of those calls, from call k on.
RECURSIVE LockTrace(_, _)
LockTrace(s, k) ==
    IF k > Len(hist) THEN <<>>
    ELSE LET after == analyze(s, hist[k]).state
         IN  <<is_locked(after)>> \o LockTrace(after, k + 1)

\* Some call after the replaying one left the analyzer unlocked.
LostLockSinceReplay ==
    \E j \in (replayed_at + 1)..(Len(hist) - 1) : ~LockTrace(FreshAnalyzer, 1)[j]

\* C39: once a call of analyze() has replayed the buffer, no later call
\* replays it again until reset() is called, and _has_emitted_buffered, once
\* set, is cleared by reset() only.
C39_ReplayOncePerReset ==
    [][ /\ (replayed_at > 0 /\ hist' # <<>>) => replayed_at' = replayed_at
        /\ (ta.has_emitted_buffered /\ ~ta'.has_emitted_buffered) => hist' = <<>>
      ]_vars

\* The latest call found the analyzer locked with more than one buffered
\* event, after a call since the replay had left it unlocked, and did not
\* replay.
C39_Witness ==
    /\ replayed_at > 0
    /\ replayed_at < Len(hist)
    /\ is_locked(pre)
    /\ pre.has_emitted_buffered
    /\ Len(pre.buffered_events) > 1
    /\ LostLockSinceReplay

----------------------------------------------------------------------------
(* Properties of the frequency detector's lock counter *)

\* C40: after any calls of detect() and reset() the lock counter is between
\* 0 and _required_lock_samples + 5 = 10, and it is 0 exactly when
\* _current_frequency is None.
C40_LockCounterInvariant ==
    /\ fd.lock_count \in 0..(fd_required_lock_samples + 5)
    /\ fd.lock_count = 0 <=> IsNone(fd.current_frequency)

\* A detect() call that tracked a tone with the counter already at its
\* ceiling of 10 and left it there.
C40_Witness ==
    /\ fd_op = "detect"
    /\ ~IsNone(fd_out)
    /\ fd_pre.lock_count = fd_required_lock_samples + 5
    /\ fd.lock_count = fd_required_lock_samples + 5

====
